---------------------------- MODULE Spec2Model ----------------------------
(***************************************************************************)
(* DeskAI voice assistant: the wake-word detector (voice_listener.py), the *)
(* execution engine (execution_engine.py) and the command orchestrator     *)
(* (main.py, UI.py), modelled as three cooperating state machines.         *)
(*                                                                         *)
(* Text is a sequence of one-character strings, so that Python's           *)
(* `needle in haystack` and `.lower()` are computed, not assumed.          *)
(* A message is a sequence of string fragments: an f-string or a `+`       *)
(* concatenation is the concatenation of its fragments.                    *)
(***************************************************************************)
EXTENDS Integers, Sequences, FiniteSets, TLC

(***************************************************************************)
(* Bounds of the model.                                                    *)
(***************************************************************************)
MaxConfirm == 2
MaxUtterances == 6
MaxWorkers == 2
MaxOps == 3
max_queue_size == 2
NumThreads == 2
MaxStarts == 2
MaxExtStops == 2
MaxRunThreads == 1
MaxLoopUtterances == 3
MaxListeners == 2

(***************************************************************************)
(* Text helpers.                                                           *)
(***************************************************************************)
\* str.lower() on one character; the capitals listed are those of the texts below
LowerChar(ch) ==
    CASE ch = "D" -> "d"
      [] ch = "E" -> "e"
      [] ch = "Q" -> "q"
      [] OTHER -> ch

Lower(s) == [i \in 1..Len(s) |-> LowerChar(s[i])]

\* Python `needle in haystack` for strings
Contains(needle, hay) ==
    \E i \in 1..(Len(hay) - Len(needle) + 1) :
        SubSeq(hay, i, i + Len(needle) - 1) = needle

(***************************************************************************)
(* Wake-word detector: voice_listener.py                                   *)
(***************************************************************************)
VARIABLES
    confirmation_count,      \* WakeWordListener.confirmation_count
    consecutive_detections,  \* WakeWordListener.consecutive_detections
    is_listening,            \* WakeWordListener.is_listening
    use_offline,             \* WakeWordListener.use_offline
    listeners,               \* number of detection-loop threads that have not ended
    heard,                   \* history: the utterance events the loop has handled
    fired                    \* history: number of callback threads the loop started

detVars == <<confirmation_count, consecutive_detections, is_listening,
             use_offline, listeners, heard, fired>>

wake_word == <<"d", "e", "s", "k">>

\* recognised texts a finalized utterance can carry
T_desk     == <<"d", "e", "s", "k">>
T_HeyDesk  == <<"h", "e", "y", " ", "D", "e", "s", "k", "t", "o", "p">>
T_dusk     == <<"d", "u", "s", "k">>
T_empty    == <<>>

UtterTexts == {T_desk, T_HeyDesk, T_dusk, T_empty}

\* `self.wake_word in text` after `.lower()`
IsWake(text) == Contains(wake_word, Lower(text))

\* the counter update of one finalized utterance:
\* returns the new counter and whether the callback thread is started
OnFinalMutNoReset(text, count, C) ==
    IF IsWake(text)
    THEN IF count + 1 >= C
         THEN [count |-> 0, fire |-> TRUE]
         ELSE [count |-> count + 1, fire |-> FALSE]
    ELSE [count |-> count, fire |-> FALSE]

OnFinal(text, count, C) ==
    IF IsWake(text)
    THEN IF count + 1 >= C
         THEN [count |-> 0, fire |-> TRUE]
         ELSE [count |-> count + 1, fire |-> FALSE]
    ELSE [count |-> 0, fire |-> FALSE]

InitDet ==
    /\ confirmation_count \in 1..MaxConfirm
    /\ consecutive_detections = 0
    /\ is_listening = FALSE
    /\ use_offline \in BOOLEAN
    /\ listeners = 0
    /\ heard = <<>>
    /\ fired = 0

\* listen_for_wake_word(callback): sets the flag and, offline, starts a new
\* _listen_offline_worker thread, whether or not one is running already
ListenForWakeWord ==
    /\ listeners < MaxListeners
    /\ is_listening' = TRUE
    /\ listeners' = IF use_offline THEN listeners + 1 ELSE listeners
    /\ UNCHANGED <<confirmation_count, consecutive_detections, use_offline, heard, fired>>

\* WakeWordListener.stop(): clears the flag; listener_thread.join(timeout=2)
\* returns whether or not the loop has ended by then
ListenerStop ==
    /\ is_listening
    /\ is_listening' = FALSE
    /\ UNCHANGED <<confirmation_count, consecutive_detections, use_offline, listeners, heard, fired>>

\* _listen_offline_worker: `while self.is_listening` is found false, the
\* stream is closed and the thread ends
ListenerExit ==
    /\ listeners > 0
    /\ ~is_listening
    /\ listeners' = listeners - 1
    /\ UNCHANGED <<confirmation_count, consecutive_detections, is_listening,
                   use_offline, heard, fired>>

\* a handler that fires the callback and goes on counting
HandleFinalMutKeepsCount(text) ==
    /\ is_listening
    /\ Len(heard) < MaxUtterances
    /\ LET r == OnFinal(text, consecutive_detections, confirmation_count)
       IN /\ consecutive_detections' = IF r.fire THEN consecutive_detections + 1 ELSE r.count
          /\ fired' = IF r.fire THEN fired + 1 ELSE fired
    /\ heard' = Append(heard, [kind |-> "final", text |-> text])
    /\ UNCHANGED <<confirmation_count, is_listening, use_offline, listeners>>

\* one finalized utterance: offline AcceptWaveform() true, online recognize_google() returned
HandleFinal(text) ==
    /\ is_listening
    /\ Len(heard) < MaxUtterances
    /\ LET r == OnFinal(text, consecutive_detections, confirmation_count)
       IN /\ consecutive_detections' = r.count
          /\ fired' = IF r.fire THEN fired + 1 ELSE fired
    /\ heard' = Append(heard, [kind |-> "final", text |-> text])
    /\ UNCHANGED <<confirmation_count, is_listening, use_offline, listeners>>

\* a loop that counts a partial result like a finalized utterance
HandlePartialMutCounts(text) ==
    /\ is_listening
    /\ use_offline
    /\ Len(heard) < MaxUtterances
    /\ LET r == OnFinal(text, consecutive_detections, confirmation_count)
       IN /\ consecutive_detections' = r.count
          /\ fired' = IF r.fire THEN fired + 1 ELSE fired
    /\ heard' = Append(heard, [kind |-> "partial", text |-> text])
    /\ UNCHANGED <<confirmation_count, is_listening, use_offline, listeners>>

\* offline only: AcceptWaveform() false, the partial result is only printed
HandlePartial(text) ==
    /\ is_listening
    /\ use_offline
    /\ Len(heard) < MaxUtterances
    /\ heard' = Append(heard, [kind |-> "partial", text |-> text])
    /\ UNCHANGED <<confirmation_count, consecutive_detections, is_listening,
                   use_offline, listeners, fired>>

\* an error handler that gives up listening
HandleErrorMutStops ==
    /\ is_listening
    /\ Len(heard) < MaxUtterances
    /\ is_listening' = FALSE
    /\ heard' = Append(heard, [kind |-> "error", text |-> T_empty])
    /\ UNCHANGED <<confirmation_count, consecutive_detections, use_offline, listeners, fired>>

\* a recognition error: online UnknownValueError / RequestError / Exception,
\* offline any exception of the loop body; every handler leaves the counter alone
HandleError ==
    /\ is_listening
    /\ Len(heard) < MaxUtterances
    /\ heard' = Append(heard, [kind |-> "error", text |-> T_empty])
    /\ UNCHANGED <<confirmation_count, consecutive_detections, is_listening,
                   use_offline, listeners, fired>>

NextDet ==
    \/ ListenForWakeWord
    \/ ListenerStop
    \/ ListenerExit
    \/ \E text \in UtterTexts : HandleFinal(text)
    \/ HandlePartial(T_desk)
    \/ HandleError


(***************************************************************************)
(* Execution engine: execution_engine.py                                   *)
(***************************************************************************)
VARIABLES
    command_queue,   \* ExecutionEngine.command_queue, oldest first
    eng_is_running,  \* ExecutionEngine.is_running
    worker,          \* the worker threads start() has created: position and item in hand
    next_id,         \* history: number of entry-point calls made so far
    rejected,        \* history: ids of the calls execute() answered False
    last_enqueue,    \* history: the latest execute() call
    last_dispatch    \* history: the latest run of _execute_command

engVars == <<command_queue, eng_is_running, worker, next_id, rejected,
             last_enqueue, last_dispatch>>

Workers == 1..MaxWorkers

None == "<None>"

\* (cmd_type, exec_data, response) triples, as CommandMapper produces them,
\* plus one whose type the dispatcher does not know
Cmd(t, d, r) == [cmd_type |-> t, exec_data |-> d, response |-> r]

CmdApp      == Cmd("app", "notepad.exe", <<"Opening ", "notepad">>)
CmdExit     == Cmd("system", "exit", <<"Goodbye! Shutting down.">>)
CmdShutdown == Cmd("system", "shutdown /s /t 30", <<"Shutting down in 30 seconds">>)
CmdWeb      == Cmd("web", "https://www.weather.com", <<"Opening weather website">>)
CmdInfo     == Cmd("info", "05:00 PM", <<"The time is ", "05:00 PM">>)
CmdError    == Cmd("error", None, <<"Please specify what you want to search for">>)
CmdUnknown  == Cmd("unknown", None, <<"I'm sorry, I didn't understand that command.">>)

AllCmds == {CmdApp, CmdExit, CmdShutdown, CmdWeb, CmdInfo, CmdError, CmdUnknown,
            Cmd("folder", "~/Downloads", <<"Opening ", "downloads", " folder">>),
            Cmd("close_app", "notepad", <<"Closing ", "notepad">>),
            Cmd("bogus", None, <<"bogus">>)}

\* the commands the model hands to the queued entry point: one that calls the
\* OS, one that does not, and the two that must never reach it
QueuedCmds == {CmdApp, CmdExit, CmdError, CmdUnknown}

\* what the operating system answers during one dispatch:
\* os.path.exists, os.path.isdir, and whether the OS primitive raises
OsOutcomes == [exists : BOOLEAN, isdir : BOOLEAN, raises : BOOLEAN]

Cause == "OSError"

\* a handler's outcome: the returned tuple, the OS primitives called,
\* whether one of them raised, and the exception that leaves the handler
Res(ok, msg, calls, raised) ==
    [success |-> ok, message |-> msg, calls |-> calls, os_raised |-> raised,
     exc |-> "none"]

\* _execute_app without its own try/except: the OS error leaves the handler
ExecuteAppMutNoTry(app_path, response, os) ==
    LET prim == IF os.exists THEN "os.startfile" ELSE "subprocess.Popen"
    IN IF os.raises
       THEN [success |-> FALSE, message |-> <<>>, calls |-> <<prim>>,
             os_raised |-> TRUE, exc |-> Cause]
       ELSE Res(TRUE, response, <<prim>>, FALSE)

\* _execute_app
ExecuteApp(app_path, response, os) ==
    LET prim == IF os.exists THEN "os.startfile" ELSE "subprocess.Popen"
    IN IF os.raises
       THEN Res(FALSE, <<"Failed to open application: ", Cause>>, <<prim>>, TRUE)
       ELSE Res(TRUE, response, <<prim>>, FALSE)

\* _execute_folder answering a missing folder with no message at all
ExecuteFolderMutNoMessage(folder_path, response, os) ==
    IF os.exists /\ os.isdir
    THEN IF os.raises
         THEN Res(FALSE, <<"Failed to open folder: ", Cause>>, <<"os.startfile">>, TRUE)
         ELSE Res(TRUE, response, <<"os.startfile">>, FALSE)
    ELSE Res(FALSE, <<>>, <<>>, FALSE)

\* _execute_folder
ExecuteFolder(folder_path, response, os) ==
    IF os.exists /\ os.isdir
    THEN IF os.raises
         THEN Res(FALSE, <<"Failed to open folder: ", Cause>>, <<"os.startfile">>, TRUE)
         ELSE Res(TRUE, response, <<"os.startfile">>, FALSE)
    ELSE Res(FALSE, <<"Folder not found: ", folder_path>>, <<>>, FALSE)

\* _execute_system without the special case: exit goes to the shell too
ExecuteSystemMutRunsExit(command, response, os) ==
    IF os.raises
    THEN Res(FALSE, <<"System command failed: ", Cause>>, <<"subprocess.Popen">>, TRUE)
    ELSE Res(TRUE, response, <<"subprocess.Popen">>, FALSE)

\* _execute_system
ExecuteSystem(command, response, os) ==
    IF command = "exit"
    THEN Res(TRUE, response, <<>>, FALSE)
    ELSE IF os.raises
         THEN Res(FALSE, <<"System command failed: ", Cause>>, <<"subprocess.Popen">>, TRUE)
         ELSE Res(TRUE, response, <<"subprocess.Popen">>, FALSE)

\* _execute_web
ExecuteWeb(url, response, os) ==
    IF os.raises
    THEN Res(FALSE, <<"Failed to open browser: ", Cause>>, <<"webbrowser.open">>, TRUE)
    ELSE Res(TRUE, response, <<"webbrowser.open">>, FALSE)

\* _execute_close_app: taskkill with check=False, its exit status is not looked at
ExecuteCloseApp(app_name, response, os) ==
    IF os.raises
    THEN Res(FALSE, <<"Failed to close application: ", Cause>>, <<"taskkill">>, TRUE)
    ELSE Res(TRUE, response, <<"taskkill">>, FALSE)

\* the chain with the 'error' branch missing its early return: falls into the shell
DispatchKindMutErrorRuns(c, os) ==
    CASE c.cmd_type = "app"       -> ExecuteApp(c.exec_data, c.response, os)
      [] c.cmd_type = "folder"    -> ExecuteFolder(c.exec_data, c.response, os)
      [] c.cmd_type = "system"    -> ExecuteSystem(c.exec_data, c.response, os)
      [] c.cmd_type = "web"       -> ExecuteWeb(c.exec_data, c.response, os)
      [] c.cmd_type = "close_app" -> ExecuteCloseApp(c.exec_data, c.response, os)
      [] c.cmd_type = "info"      -> Res(TRUE, c.response, <<>>, FALSE)
      [] c.cmd_type = "error"     -> ExecuteSystem(c.exec_data, c.response, os)
      [] c.cmd_type = "unknown"   -> Res(FALSE, c.response, <<>>, FALSE)
      [] OTHER -> Res(FALSE, <<"Unknown command type: ", c.cmd_type>>, <<>>, FALSE)

\* the if/elif chain of _execute_command
DispatchKind(c, os) ==
    CASE c.cmd_type = "app"       -> ExecuteApp(c.exec_data, c.response, os)
      [] c.cmd_type = "folder"    -> ExecuteFolder(c.exec_data, c.response, os)
      [] c.cmd_type = "system"    -> ExecuteSystem(c.exec_data, c.response, os)
      [] c.cmd_type = "web"       -> ExecuteWeb(c.exec_data, c.response, os)
      [] c.cmd_type = "close_app" -> ExecuteCloseApp(c.exec_data, c.response, os)
      [] c.cmd_type = "info"      -> Res(TRUE, c.response, <<>>, FALSE)
      [] c.cmd_type = "error"     -> Res(FALSE, c.response, <<>>, FALSE)
      [] c.cmd_type = "unknown"   -> Res(FALSE, c.response, <<>>, FALSE)
      [] OTHER -> Res(FALSE, <<"Unknown command type: ", c.cmd_type>>, <<>>, FALSE)

\* a dispatcher that answers with a message of its own
ExecuteCommandMutOwnMessage(c, os) ==
    LET r == DispatchKind(c, os)
    IN IF r.exc # "none"
       THEN [r EXCEPT !.success = FALSE,
                      !.message = <<"Execution failed: ", r.exc>>,
                      !.exc = "none"]
       ELSE [r EXCEPT !.message = <<"Done">>]

\* _execute_command: the chain inside try / except Exception
ExecuteCommand(c, os) ==
    LET r == DispatchKind(c, os)
    IN IF r.exc # "none"
       THEN [r EXCEPT !.success = FALSE,
                      !.message = <<"Execution failed: ", r.exc>>,
                      !.exc = "none"]
       ELSE r

NoDispatch == [id |-> 0]
NoEnqueue == [id |-> 0]

Dispatched(id, via, c, os) ==
    [id |-> id, via |-> via, cmd |-> c, result |-> ExecuteCommand(c, os)]

InitEng ==
    /\ command_queue = <<>>
    /\ eng_is_running = FALSE
    /\ worker = [w \in Workers |-> [pc |-> "unborn", item |-> NoDispatch]]
    /\ next_id = 1
    /\ rejected = {}
    /\ last_enqueue = NoEnqueue
    /\ last_dispatch = NoDispatch

\* ExecutionEngine.start()
EngineStart ==
    /\ ~eng_is_running
    /\ \E w \in Workers :
         /\ worker[w].pc = "unborn"
         /\ \A v \in Workers : v < w => worker[v].pc # "unborn"
         /\ worker' = [worker EXCEPT ![w].pc = "loop"]
    /\ eng_is_running' = TRUE
    /\ UNCHANGED <<command_queue, next_id, rejected, last_enqueue, last_dispatch>>

\* ExecutionEngine.stop(): clears the flag; the join gives up after 2 seconds
EngineStop ==
    /\ eng_is_running
    /\ eng_is_running' = FALSE
    /\ UNCHANGED <<command_queue, worker, next_id, rejected, last_enqueue, last_dispatch>>

\* _worker: `while self.is_running` and `if not self.command_queue.empty()`
WorkerLoop(w) ==
    /\ worker[w].pc = "loop"
    /\ \/ ~eng_is_running /\ worker' = [worker EXCEPT ![w].pc = "exited"]
       \/ eng_is_running /\ command_queue # <<>>
            /\ worker' = [worker EXCEPT ![w].pc = "get"]
    /\ UNCHANGED <<command_queue, eng_is_running, next_id, rejected,
                   last_enqueue, last_dispatch>>

\* a worker that reads the head of the queue and leaves it there
WorkerGetMutPeek(w) ==
    /\ worker[w].pc = "get"
    /\ IF command_queue # <<>>
       THEN /\ worker' = [worker EXCEPT ![w] = [pc |-> "exec", item |-> Head(command_queue)]]
            /\ UNCHANGED command_queue
       ELSE /\ worker' = [worker EXCEPT ![w].pc = "loop"]
            /\ UNCHANGED command_queue
    /\ UNCHANGED <<eng_is_running, next_id, rejected, last_enqueue, last_dispatch>>

\* _worker: command_queue.get(timeout=0.5); queue.Empty is caught by the loop
WorkerGet(w) ==
    /\ worker[w].pc = "get"
    /\ IF command_queue # <<>>
       THEN /\ worker' = [worker EXCEPT ![w] = [pc |-> "exec", item |-> Head(command_queue)]]
            /\ command_queue' = Tail(command_queue)
       ELSE /\ worker' = [worker EXCEPT ![w].pc = "loop"]
            /\ UNCHANGED command_queue
    /\ UNCHANGED <<eng_is_running, next_id, rejected, last_enqueue, last_dispatch>>

\* _worker: self._execute_command(...) and task_done()
WorkerExec(w, os) ==
    /\ worker[w].pc = "exec"
    /\ last_dispatch' = Dispatched(worker[w].item.id, "worker", worker[w].item.cmd, os)
    /\ worker' = [worker EXCEPT ![w] = [pc |-> "loop", item |-> NoDispatch]]
    /\ UNCHANGED <<command_queue, eng_is_running, next_id, rejected, last_enqueue>>

\* a put that makes room by pushing the item in although it reports Full
PutNoWaitMutOverflow(q, item, cap) ==
    IF Len(q) >= cap
    THEN [queue |-> Append(q, item), full |-> TRUE]
    ELSE [queue |-> Append(q, item), full |-> FALSE]

\* Queue.put(item, block=False): the queue after the call and whether Full was raised
PutNoWait(q, item, cap) ==
    IF Len(q) >= cap
    THEN [queue |-> q, full |-> TRUE]
    ELSE [queue |-> Append(q, item), full |-> FALSE]

\* an execute() on a queue built without maxsize: the put never raises
ExecuteMutNoBound(c) ==
    /\ next_id <= MaxOps
    /\ LET item == [id |-> next_id, cmd |-> c]
       IN /\ command_queue' = Append(command_queue, item)
          /\ UNCHANGED rejected
          /\ last_enqueue' = [id |-> next_id, ret |-> TRUE,
                              before |-> command_queue,
                              after |-> Append(command_queue, item)]
    /\ next_id' = next_id + 1
    /\ UNCHANGED <<eng_is_running, worker, last_dispatch>>

\* ExecutionEngine.execute(): True unless put() raised
Execute(c) ==
    /\ next_id <= MaxOps
    /\ LET item == [id |-> next_id, cmd |-> c]
           p == PutNoWait(command_queue, item, max_queue_size)
       IN /\ command_queue' = p.queue
          /\ rejected' = IF p.full THEN rejected \cup {next_id} ELSE rejected
          /\ last_enqueue' = [id |-> next_id, ret |-> ~p.full,
                              before |-> command_queue, after |-> p.queue]
    /\ next_id' = next_id + 1
    /\ UNCHANGED <<eng_is_running, worker, last_dispatch>>

\* an execute_immediate() that also leaves the action on the queue
ExecuteImmediateMutQueues(c, os) ==
    /\ next_id <= MaxOps
    /\ command_queue' =
          PutNoWait(command_queue, [id |-> next_id, cmd |-> c], max_queue_size).queue
    /\ last_dispatch' = Dispatched(next_id, "immediate", c, os)
    /\ next_id' = next_id + 1
    /\ UNCHANGED <<eng_is_running, worker, rejected, last_enqueue>>

\* ExecutionEngine.execute_immediate(): the dispatcher on the calling thread
ExecuteImmediate(c, os) ==
    /\ next_id <= MaxOps
    /\ last_dispatch' = Dispatched(next_id, "immediate", c, os)
    /\ next_id' = next_id + 1
    /\ UNCHANGED <<command_queue, eng_is_running, worker, rejected, last_enqueue>>

NextEng ==
    \/ EngineStart
    \/ EngineStop
    \/ \E w \in Workers : WorkerLoop(w)
    \/ \E w \in Workers : WorkerGet(w)
    \/ \E w \in Workers, os \in OsOutcomes : WorkerExec(w, os)
    \/ \E c \in QueuedCmds : Execute(c)
    \/ \E c \in AllCmds, os \in OsOutcomes : ExecuteImmediate(c, os)

(***************************************************************************)
(* Intent classifier: nlp_engine.py                                        *)
(***************************************************************************)
\* the texts the speech recognizer can return for a command
T_goodbye  == <<"g", "o", "o", "d", "b", "y", "e">>
T_open_np  == <<"o", "p", "e", "n", " ", "n", "o", "t", "e", "p", "a", "d">>
T_open_foo == <<"o", "p", "e", "n", " ", "f", "o", "o">>
T_bye      == <<"b", "y", "e">>
T_hmm      == <<"h", "m", "m">>
T_quit_np  == <<"q", "u", "i", "t", " ", "n", "o", "t", "e", "p", "a", "d">>

CommandTexts == {T_empty, T_goodbye, T_open_np, T_open_foo, T_bye, T_hmm, T_quit_np}

\* \b in front of a keyword that starts with a letter: the start of the text,
\* or a character before it that is not \w (a blank or an apostrophe here)
Boundary(s, i) == i = 1 \/ s[i - 1] \in {" ", "'"}

OccursAt(s, i, kw) ==
    /\ i + Len(kw) - 1 <= Len(s)
    /\ SubSeq(s, i, i + Len(kw) - 1) = kw

\* re.search(r'\b(?:k1|k2|...)', s)
Kw(s, ks) ==
    \E kw \in ks : \E i \in 1..Len(s) : Boundary(s, i) /\ OccursAt(s, i, kw)

\* where r'\b(?:k1|k2|...)\s+(.+)' can match: start of the keyword, start of the group
KwArgAt(s, ks) ==
    {p \in (1..Len(s)) \X (1..Len(s)) :
        \E kw \in ks :
            /\ Boundary(s, p[1]) /\ OccursAt(s, p[1], kw)
            /\ p[2] > p[1] + Len(kw)
            /\ \A j \in (p[1] + Len(kw))..(p[2] - 1) : s[j] = " "
            /\ s[p[2]] # " "}

\* re.search(r'\b(?:k1|k2|...)\s+(.+)', s)
KwArg(s, ks) == KwArgAt(s, ks) # {}

\* match.group(1).strip() of the leftmost match
KwArgGroup(s, ks) ==
    LET first == CHOOSE p \in KwArgAt(s, ks) : \A q \in KwArgAt(s, ks) : p[1] <= q[1]
    IN SubSeq(s, first[2], Len(s))

K_open   == {<<"o", "p", "e", "n">>,
     <<"l", "a", "u", "n", "c", "h">>,
     <<"s", "t", "a", "r", "t">>,
     <<"r", "u", "n">>}
K_close  == {<<"c", "l", "o", "s", "e">>,
     <<"q", "u", "i", "t">>,
     <<"e", "x", "i", "t">>,
     <<"s", "t", "o", "p">>}
K_search == {<<"s", "e", "a", "r", "c", "h">>,
     <<"l", "o", "o", "k", " ", "u", "p">>,
     <<"f", "i", "n", "d">>,
     <<"g", "o", "o", "g", "l", "e">>,
     <<"w", "h", "a", "t", " ", "i", "s">>,
     <<"w", "h", "o", " ", "i", "s">>,
     <<"t", "e", "l", "l", " ", "m", "e", " ", "a", "b", "o", "u", "t">>}
K_play   == {<<"p", "l", "a", "y">>,
     <<"s", "t", "a", "r", "t", " ", "p", "l", "a", "y", "i", "n", "g">>,
     <<"p", "u", "t", " ", "o", "n">>}
K_system == {<<"s", "h", "u", "t", "d", "o", "w", "n">>,
     <<"r", "e", "s", "t", "a", "r", "t">>,
     <<"r", "e", "b", "o", "o", "t">>,
     <<"s", "l", "e", "e", "p">>,
     <<"l", "o", "c", "k">>}
\* the second system_command pattern over single-spaced text
K_system2 == {<<"t", "u", "r", "n", " ", "o", "f", "f", " ", "c", "o", "m", "p", "u", "t", "e", "r">>,
     <<"t", "u", "r", "n", " ", "o", "f", "f", " ", "t", "h", "e", " ", "c", "o", "m", "p", "u", "t", "e", "r">>,
     <<"t", "u", "r", "n", " ", "o", "f", "f", " ", "s", "y", "s", "t", "e", "m">>,
     <<"t", "u", "r", "n", " ", "o", "f", "f", " ", "t", "h", "e", " ", "s", "y", "s", "t", "e", "m">>,
     <<"t", "u", "r", "n", " ", "o", "f", "f", " ", "p", "c">>,
     <<"t", "u", "r", "n", " ", "o", "f", "f", " ", "t", "h", "e", " ", "p", "c">>,
     <<"s", "h", "u", "t", " ", "d", "o", "w", "n", " ", "c", "o", "m", "p", "u", "t", "e", "r">>,
     <<"s", "h", "u", "t", " ", "d", "o", "w", "n", " ", "t", "h", "e", " ", "c", "o", "m", "p", "u", "t", "e", "r">>,
     <<"s", "h", "u", "t", " ", "d", "o", "w", "n", " ", "s", "y", "s", "t", "e", "m">>,
     <<"s", "h", "u", "t", " ", "d", "o", "w", "n", " ", "t", "h", "e", " ", "s", "y", "s", "t", "e", "m">>,
     <<"s", "h", "u", "t", " ", "d", "o", "w", "n", " ", "p", "c">>,
     <<"s", "h", "u", "t", " ", "d", "o", "w", "n", " ", "t", "h", "e", " ", "p", "c">>}
K_time   == {<<"w", "h", "a", "t", " ", "t", "i", "m", "e", " ", "i", "s", " ", "i", "t">>,
     <<"t", "e", "l", "l", " ", "m", "e", " ", "t", "h", "e", " ", "t", "i", "m", "e">>,
     <<"c", "u", "r", "r", "e", "n", "t", " ", "t", "i", "m", "e">>,
     <<"w", "h", "a", "t", "'", "s", " ", "t", "h", "e", " ", "t", "i", "m", "e">>,
     <<"w", "h", "a", "t", "s", " ", "t", "h", "e", " ", "t", "i", "m", "e">>}
K_date   == {<<"w", "h", "a", "t", "'", "s", " ", "t", "h", "e", " ", "d", "a", "t", "e">>,
     <<"w", "h", "a", "t", "s", " ", "t", "h", "e", " ", "d", "a", "t", "e">>,
     <<"w", "h", "a", "t", "'", "s", " ", "d", "a", "t", "e">>,
     <<"w", "h", "a", "t", "s", " ", "d", "a", "t", "e">>,
     <<"t", "o", "d", "a", "y", "'", "s", " ", "d", "a", "t", "e">>,
     <<"t", "o", "d", "a", "y", "s", " ", "d", "a", "t", "e">>,
     <<"w", "h", "a", "t", " ", "d", "a", "y", " ", "i", "s", " ", "i", "t">>}
K_weather == {<<"w", "h", "a", "t", "'", "s", " ", "t", "h", "e", " ", "w", "e", "a", "t", "h", "e", "r">>,
     <<"w", "h", "a", "t", "s", " ", "t", "h", "e", " ", "w", "e", "a", "t", "h", "e", "r">>,
     <<"w", "e", "a", "t", "h", "e", "r", " ", "f", "o", "r", "e", "c", "a", "s", "t">>,
     <<"h", "o", "w", "'", "s", " ", "t", "h", "e", " ", "w", "e", "a", "t", "h", "e", "r">>,
     <<"h", "o", "w", "s", " ", "t", "h", "e", " ", "w", "e", "a", "t", "h", "e", "r">>,
     <<"r", "a", "i", "n", "i", "n", "g">>,
     <<"s", "u", "n", "n", "y">>,
     <<"c", "l", "o", "u", "d", "y">>}
\* the volume patterns over single-spaced text (no digits in the texts)
K_volume == {<<"m", "u", "t", "e">>,
     <<"u", "n", "m", "u", "t", "e">>,
     <<"v", "o", "l", "u", "m", "e", " ", "u", "p">>,
     <<"v", "o", "l", "u", "m", "e", " ", "d", "o", "w", "n">>,
     <<"v", "o", "l", "u", "m", "e", " ", "m", "u", "t", "e">>,
     <<"v", "o", "l", "u", "m", "e", " ", "u", "n", "m", "u", "t", "e">>,
     <<"s", "o", "u", "n", "d", " ", "u", "p">>,
     <<"s", "o", "u", "n", "d", " ", "d", "o", "w", "n">>,
     <<"s", "o", "u", "n", "d", " ", "m", "u", "t", "e">>,
     <<"s", "o", "u", "n", "d", " ", "u", "n", "m", "u", "t", "e">>,
     <<"i", "n", "c", "r", "e", "a", "s", "e", " ", "v", "o", "l", "u", "m", "e">>,
     <<"i", "n", "c", "r", "e", "a", "s", "e", " ", "t", "h", "e", " ", "v", "o", "l", "u", "m", "e">>,
     <<"d", "e", "c", "r", "e", "a", "s", "e", " ", "v", "o", "l", "u", "m", "e">>,
     <<"d", "e", "c", "r", "e", "a", "s", "e", " ", "t", "h", "e", " ", "v", "o", "l", "u", "m", "e">>,
     <<"r", "a", "i", "s", "e", " ", "v", "o", "l", "u", "m", "e">>,
     <<"r", "a", "i", "s", "e", " ", "t", "h", "e", " ", "v", "o", "l", "u", "m", "e">>,
     <<"l", "o", "w", "e", "r", " ", "v", "o", "l", "u", "m", "e">>,
     <<"l", "o", "w", "e", "r", " ", "t", "h", "e", " ", "v", "o", "l", "u", "m", "e">>}
K_exit   == {<<"e", "x", "i", "t">>,
     <<"q", "u", "i", "t">>,
     <<"s", "t", "o", "p", " ", "l", "i", "s", "t", "e", "n", "i", "n", "g">>,
     <<"g", "o", "o", "d", "b", "y", "e">>,
     <<"b", "y", "e">>}

\* the names the model needs as plain strings
Name(chars) ==
    CASE chars = <<"n", "o", "t", "e", "p", "a", "d">> -> "notepad"
      [] chars = <<"f", "o", "o">> -> "foo"
      [] chars = <<"s", "h", "u", "t", "d", "o", "w", "n">> -> "shutdown"
      [] OTHER -> "other"

Intent(i, a) == [intent |-> i, arg |-> a]

\* IntentParser.parse_intent: the first intent, in dictionary order, one of
\* whose patterns matches the lower-cased text
ParseIntent(text) ==
    LET s == Lower(text)
    IN IF s = <<>> THEN Intent("unknown", "")
       ELSE IF KwArg(s, K_open) THEN Intent("open_app", Name(KwArgGroup(s, K_open)))
       ELSE IF KwArg(s, K_close) THEN Intent("close_app", Name(KwArgGroup(s, K_close)))
       ELSE IF KwArg(s, K_search) THEN Intent("search", Name(KwArgGroup(s, K_search)))
       ELSE IF KwArg(s, K_play) THEN Intent("play_media", Name(KwArgGroup(s, K_play)))
       ELSE IF Kw(s, K_system)
            THEN Intent("system_command",
                        Name(CHOOSE k \in K_system :
                               \E i \in 1..Len(s) : Boundary(s, i) /\ OccursAt(s, i, k)))
       ELSE IF Kw(s, K_system2) THEN Intent("system_command", "")
       ELSE IF Kw(s, K_time) THEN Intent("time", "")
       ELSE IF Kw(s, K_date) THEN Intent("date", "")
       ELSE IF Kw(s, K_weather) THEN Intent("weather", "")
       ELSE IF Kw(s, K_volume) THEN Intent("volume", "")
       ELSE IF Kw(s, K_exit) THEN Intent("exit", "")
       ELSE Intent("unknown", "")

(***************************************************************************)
(* Action resolver: command_mapper.py                                      *)
(***************************************************************************)
Mapped(c) == [raised |-> FALSE, cmd |-> c]
MapRaised == [raised |-> TRUE, cmd |-> CmdUnknown]

\* CommandMapper.map_and_execute: the triples it can return for an intent, and
\* whether the file-system search behind _map_open_app can raise
MapAndExecute(in) ==
    CASE in.intent = "open_app" ->
            IF in.arg = "notepad"
            THEN {Mapped(CmdApp)}
            ELSE {Mapped(Cmd("folder", "~/foo", <<"Opening ", in.arg, " folder">>)),
                  Mapped(Cmd("error", None,
                             <<"Sorry, I could not find ", in.arg, " on your system">>)),
                  MapRaised}
      [] in.intent = "close_app" ->
            {Mapped(Cmd("close_app", in.arg, <<"Closing ", in.arg>>))}
      [] in.intent = "search" ->
            {Mapped(Cmd("web", "https://www.google.com/search?q=", <<"Searching for ", in.arg>>))}
      [] in.intent = "play_media" ->
            {Mapped(Cmd("web", "https://www.youtube.com/results?search_query=",
                        <<"Playing ", in.arg>>))}
      [] in.intent = "system_command" ->
            IF in.arg = "shutdown"
            THEN {Mapped(CmdShutdown)}
            ELSE {Mapped(Cmd("error", None, <<"Unknown system command: ", in.arg>>))}
      [] in.intent = "time" -> {Mapped(CmdInfo)}
      [] in.intent = "date" -> {Mapped(Cmd("info", "Monday", <<"Today is ", "Monday">>))}
      [] in.intent = "weather" -> {Mapped(CmdWeb)}
      [] in.intent = "volume" ->
            {Mapped(Cmd("error", None, <<"Please specify volume up, down, mute, or unmute">>))}
      [] in.intent = "exit" -> {Mapped(CmdExit)}
      [] OTHER -> {Mapped(CmdUnknown)}

(***************************************************************************)
(* Command orchestrator: main.py (DeskAI), UI.py (manual trigger)          *)
(***************************************************************************)
VARIABLES
    is_running,     \* DeskAI.is_running
    is_processing,  \* DeskAI.is_processing
    should_exit,    \* DeskAI.should_exit
    main_pc,        \* the thread that calls start(): where it is inside start()
    starts,         \* history: number of start() calls so far
    stop_pc,        \* per caller of stop(): where it is inside stop()
    attempted,      \* history: per caller, the teardown calls its latest stop() made
    last_stop,      \* history: per caller, how its latest stop() call went
    stopped_at,     \* history: per caller, `starts` when its stop() last left Running false
    ext_stops,      \* history: number of stop() calls made from outside start()
    th              \* the trigger-callback threads

orchVars == <<is_running, is_processing, should_exit, main_pc, starts, stop_pc,
              attempted, last_stop, stopped_at, ext_stops, th>>

Threads == 1..NumThreads
Callers == {"main", "ext"}

\* what the orchestrator says
SayListening == <<"Yes, I'm listening">>
SayNothing   == <<"I didn't hear anything. Please try again.">>
SayGoodbye   == <<"Goodbye! Shutting down.">>
SayUnknown   == <<"Sorry, I didn't understand that command.">>
SayProblem   == <<"I encountered a problem while executing that.">>
SayRetry     == <<"I encountered a problem. Please try again.">>

\* the exit keywords of _process_command
ExitKeywords == {<<"e", "x", "i", "t">>, <<"q", "u", "i", "t">>, <<"s", "t", "o", "p", " ", "l", "i", "s", "t", "e", "n", "i", "n", "g">>, <<"g", "o", "o", "d", "b", "y", "e">>}

\* any(word in recognized_text.lower() for word in [...])
HasExitKeyword(text) == \E word \in ExitKeywords : Contains(word, Lower(text))

\* TextToSpeech.speak: nothing is said for an empty text; its own errors are swallowed
Speak(said, msg) == IF msg = <<>> THEN said ELSE Append(said, msg)

\* a feedback that reads a failure like a success
FeedbackMutNoPrefix(res) == res.message

\* feedback_message = result_message if success else f"Sorry, {result_message}"
Feedback(res) == IF res.success THEN res.message ELSE <<"Sorry, ">> \o res.message

NoRes == [success |-> FALSE, message |-> <<>>, calls |-> <<>>]

\* what the pass keeps of the result of execute_immediate, with the OS calls
\* the execution made
Kept(r) == [success |-> r.success, message |-> r.message, calls |-> r.calls]
NoIntent == Intent("unknown", "")

Unborn ==
    [pc |-> "unborn", text |-> T_empty, intent |-> NoIntent, cmd |-> CmdUnknown,
     res |-> NoRes,
     failed |-> FALSE, set_exit |-> FALSE, exc |-> FALSE, said |-> <<>>,
     speaking |-> FALSE]

InitOrch ==
    /\ is_running = FALSE
    /\ is_processing = FALSE
    /\ should_exit = FALSE
    /\ main_pc = "idle"
    /\ starts = 0
    /\ stop_pc = [c \in Callers |-> "none"]
    /\ attempted = [c \in Callers |-> {}]
    /\ last_stop = [c \in Callers |-> "none"]
    /\ stopped_at = [c \in Callers |-> -1]
    /\ ext_stops = 0
    /\ th = [t \in Threads |-> Unborn]

\* the next thread object to be created
Fresh(t) == th[t].pc = "unborn" /\ \A u \in Threads : u < t => th[u].pc # "unborn"

\* the detection loop starts the callback on a thread of its own
\* (confirmation_count = 1: every matching utterance is a confirmed trigger)
DetectorTrigger(t) ==
    /\ is_listening
    /\ Fresh(t)
    /\ th' = [th EXCEPT ![t].pc = "check"]
    /\ UNCHANGED <<is_running, is_processing, should_exit, main_pc, starts, stop_pc,
                   attempted, last_stop, stopped_at, ext_stops>>
    /\ UNCHANGED <<detVars, engVars>>

\* DeskAIUI._manual_command: the callback on a thread of its own
ManualTrigger(t) ==
    /\ starts > 0
    /\ Fresh(t)
    /\ th' = [th EXCEPT ![t].pc = "check"]
    /\ UNCHANGED <<is_running, is_processing, should_exit, main_pc, starts, stop_pc,
                   attempted, last_stop, stopped_at, ext_stops>>
    /\ UNCHANGED <<detVars, engVars>>

OrchFlagsUnchanged ==
    UNCHANGED <<is_running, main_pc, starts, stop_pc, attempted, last_stop,
                stopped_at, ext_stops>>

\* a guard that lets the trigger through although a pass is active
AfterCheckMutAlways(busy) == "set"

\* `if self.is_processing: return`: where the callback goes after reading the flag
AfterCheck(busy) == IF busy THEN "dropped" ELSE "set"

\* _wake_word_detected_callback: the read of is_processing
CallbackCheck(t) ==
    /\ th[t].pc = "check"
    /\ th' = [th EXCEPT ![t].pc = AfterCheck(is_processing)]
    /\ UNCHANGED <<is_processing, should_exit>>
    /\ OrchFlagsUnchanged
    /\ UNCHANGED <<detVars, engVars>>

\* `self.is_processing = True`
CallbackSet(t) ==
    /\ th[t].pc = "set"
    /\ is_processing' = TRUE
    /\ th' = [th EXCEPT ![t].pc = "ack"]
    /\ UNCHANGED should_exit
    /\ OrchFlagsUnchanged
    /\ UNCHANGED <<detVars, engVars>>

\* the block argument of the acknowledgement: block=False
AckBlock == FALSE

\* `self.tts.speak("Yes, I'm listening", block=False)` and `time.sleep(0.5)`:
\* with block the speech has ended when speak() returns (engine.runAndWait()),
\* without it the speech is left to a thread of its own (_speak_async)
CallbackAck(t) ==
    /\ th[t].pc = "ack"
    /\ th' = [th EXCEPT ![t].pc = "recognize", ![t].said = Speak(@, SayListening),
                        ![t].speaking = ~AckBlock]
    /\ UNCHANGED <<is_processing, should_exit>>
    /\ OrchFlagsUnchanged
    /\ UNCHANGED <<detVars, engVars>>

\* a pass that ends without a word when nothing was heard
RecognizeMutSilent(t, text, raises) ==
    /\ th[t].pc = "recognize"
    /\ th' = IF raises
             THEN [th EXCEPT ![t].pc = "handler", ![t].failed = TRUE, ![t].exc = TRUE]
             ELSE IF text = <<>>
             THEN [th EXCEPT ![t].pc = "finally"]
             ELSE [th EXCEPT ![t].pc = "exit_check", ![t].text = text]
    /\ UNCHANGED <<is_processing, should_exit>>
    /\ OrchFlagsUnchanged
    /\ UNCHANGED <<detVars, engVars>>

\* a pass that goes on to the exit check with an empty text
AfterRecognizeMutGoesOn(text) == "exit_check"

\* `if not recognized_text: ... return`: where the pass goes with the text
AfterRecognize(text) == IF text = <<>> THEN "finally" ELSE "exit_check"

\* step 1: stt.start_listening() returns text (empty on its own errors) or its
\* stream clean-up raises; an empty text ends the pass
Recognize(t, text, raises) ==
    /\ th[t].pc = "recognize"
    /\ th' = IF raises
             THEN [th EXCEPT ![t].pc = "handler", ![t].failed = TRUE, ![t].exc = TRUE]
             ELSE IF text = <<>>
             THEN [th EXCEPT ![t].pc = AfterRecognize(text),
                             ![t].said = Speak(@, SayNothing)]
             ELSE [th EXCEPT ![t].pc = AfterRecognize(text), ![t].text = text]
    /\ UNCHANGED <<is_processing, should_exit>>
    /\ OrchFlagsUnchanged
    /\ UNCHANGED <<detVars, engVars>>

\* a pass that classifies first and has no exit check of its own
ExitCheckMutClassifiesFirst(t) ==
    /\ th[t].pc = "exit_check"
    /\ th' = [th EXCEPT ![t].pc = "classify"]
    /\ UNCHANGED <<is_processing, should_exit>>
    /\ OrchFlagsUnchanged
    /\ UNCHANGED <<detVars, engVars>>

\* the exit-keyword check: farewell, should_exit, return
ExitCheck(t) ==
    /\ th[t].pc = "exit_check"
    /\ IF HasExitKeyword(th[t].text)
       THEN /\ th' = [th EXCEPT ![t].pc = "finally", ![t].said = Speak(@, SayGoodbye),
                                ![t].set_exit = TRUE]
            /\ should_exit' = TRUE
       ELSE /\ th' = [th EXCEPT ![t].pc = "classify"]
            /\ UNCHANGED should_exit
    /\ UNCHANGED is_processing
    /\ OrchFlagsUnchanged
    /\ UNCHANGED <<detVars, engVars>>

\* a pass that hands the unknown intent on to the resolver
ClassifyMutResolves(t) ==
    /\ th[t].pc = "classify"
    /\ th' = [th EXCEPT ![t].pc = "resolve", ![t].intent = ParseIntent(th[t].text)]
    /\ UNCHANGED <<is_processing, should_exit>>
    /\ OrchFlagsUnchanged
    /\ UNCHANGED <<detVars, engVars>>

\* step 2: nlp.parse_intent(); an unknown intent ends the pass
Classify(t) ==
    /\ th[t].pc = "classify"
    /\ LET intent == ParseIntent(th[t].text)
       IN th' = IF intent.intent = "unknown"
                THEN [th EXCEPT ![t].pc = "finally", ![t].said = Speak(@, SayUnknown)]
                ELSE [th EXCEPT ![t].pc = "resolve", ![t].intent = intent]
    /\ UNCHANGED <<is_processing, should_exit>>
    /\ OrchFlagsUnchanged
    /\ UNCHANGED <<detVars, engVars>>

\* step 3: mapper.map_and_execute(intent)
Resolve(t) ==
    /\ th[t].pc = "resolve"
    /\ \E m \in MapAndExecute(th[t].intent) :
          th' = IF m.raised
                THEN [th EXCEPT ![t].pc = "handler", ![t].failed = TRUE, ![t].exc = TRUE]
                ELSE [th EXCEPT ![t].pc = "execute", ![t].cmd = m.cmd]
    /\ UNCHANGED <<is_processing, should_exit>>
    /\ OrchFlagsUnchanged
    /\ UNCHANGED <<detVars, engVars>>

\* step 4: executor.execute_immediate(cmd_type, exec_data, response_message)
PassExecute(t, os) ==
    /\ th[t].pc = "execute"
    /\ LET r == ExecuteCommand(th[t].cmd, os)
       IN th' = IF r.exc # "none"
                THEN [th EXCEPT ![t].pc = "handler", ![t].failed = TRUE, ![t].exc = TRUE]
                ELSE [th EXCEPT ![t].pc = "respond",
                                ![t].res = Kept(r)]
    /\ UNCHANGED <<is_processing, should_exit>>
    /\ OrchFlagsUnchanged
    /\ UNCHANGED <<detVars, engVars>>

\* a pass that speaks the message the resolver planned, not the result
RespondMutSpeaksPlanned(t) ==
    /\ th[t].pc = "respond"
    /\ th' = [th EXCEPT ![t].pc = "post_check", ![t].said = Speak(@, th[t].cmd.response)]
    /\ UNCHANGED <<is_processing, should_exit>>
    /\ OrchFlagsUnchanged
    /\ UNCHANGED <<detVars, engVars>>

\* step 5: tts.speak(feedback_message)
Respond(t) ==
    /\ th[t].pc = "respond"
    /\ th' = [th EXCEPT ![t].pc = "post_check", ![t].said = Speak(@, Feedback(th[t].res))]
    /\ UNCHANGED <<is_processing, should_exit>>
    /\ OrchFlagsUnchanged
    /\ UNCHANGED <<detVars, engVars>>

\* a pass that ends after the feedback without looking at the action
PostCheckMutNoExit(t) ==
    /\ th[t].pc = "post_check"
    /\ UNCHANGED should_exit
    /\ th' = [th EXCEPT ![t].pc = "finally"]
    /\ UNCHANGED is_processing
    /\ OrchFlagsUnchanged
    /\ UNCHANGED <<detVars, engVars>>

\* `if cmd_type == 'system' and exec_data == 'exit': self.should_exit = True`
PostCheck(t) ==
    /\ th[t].pc = "post_check"
    /\ IF th[t].cmd.cmd_type = "system" /\ th[t].cmd.exec_data = "exit"
       THEN /\ should_exit' = TRUE
            /\ th' = [th EXCEPT ![t].pc = "finally", ![t].set_exit = TRUE]
       ELSE /\ UNCHANGED should_exit
            /\ th' = [th EXCEPT ![t].pc = "finally"]
    /\ UNCHANGED is_processing
    /\ OrchFlagsUnchanged
    /\ UNCHANGED <<detVars, engVars>>

\* a handler that logs and lets the exception go on to the callback
PassHandlerMutReraise(t) ==
    /\ th[t].pc = "handler"
    /\ th' = [th EXCEPT ![t].pc = "finally"]
    /\ UNCHANGED <<is_processing, should_exit>>
    /\ OrchFlagsUnchanged
    /\ UNCHANGED <<detVars, engVars>>

\* the `except Exception` of _process_command: log, speak the apology
PassHandler(t) ==
    /\ th[t].pc = "handler"
    /\ th' = [th EXCEPT ![t].pc = "finally", ![t].exc = FALSE,
                        ![t].said = Speak(@, SayProblem)]
    /\ UNCHANGED <<is_processing, should_exit>>
    /\ OrchFlagsUnchanged
    /\ UNCHANGED <<detVars, engVars>>

\* the callback's record once it has returned: the locals of the pass are gone;
\* an exception that reached the callback was answered by its own except clause
Returning(r) ==
    [Unborn EXCEPT !.pc = "done", !.failed = r.failed, !.set_exit = r.set_exit,
                   !.exc = FALSE,
                   !.said = IF r.exc THEN Speak(r.said, SayRetry) ELSE r.said]

\* the flag cleared at the end of the try block instead of in `finally`
CallbackFinallyMutNoFinally(t) ==
    /\ th[t].pc = "finally"
    /\ is_processing' = IF th[t].failed THEN is_processing ELSE FALSE
    /\ th' = [th EXCEPT ![t] = Returning(th[t])]
    /\ UNCHANGED should_exit
    /\ OrchFlagsUnchanged
    /\ UNCHANGED <<detVars, engVars>>

\* the end of the callback: its `except Exception` (log, apology) for an
\* exception that left _process_command, then `finally: self.is_processing = False`
CallbackFinally(t) ==
    /\ th[t].pc = "finally"
    /\ is_processing' = FALSE
    /\ th' = [th EXCEPT ![t] = Returning(th[t])]
    /\ UNCHANGED should_exit
    /\ OrchFlagsUnchanged
    /\ UNCHANGED <<detVars, engVars>>

\* TTSEngine._speak_async: engine.runAndWait() returns, the speech started
\* without blocking has ended
SpeakAsyncEnds(t) ==
    /\ th[t].speaking
    /\ th' = [th EXCEPT ![t].speaking = FALSE]
    /\ UNCHANGED <<is_processing, should_exit>>
    /\ OrchFlagsUnchanged
    /\ UNCHANGED <<detVars, engVars>>

\* the callback has returned and its thread ends
ThreadExit(t) ==
    /\ th[t].pc \in {"dropped", "done"}
    /\ th' = [th EXCEPT ![t] = Unborn]
    /\ UNCHANGED <<is_processing, should_exit>>
    /\ OrchFlagsUnchanged
    /\ UNCHANGED <<detVars, engVars>>

\* a start() that never returns early
StartReturnsAtOnceMutNever(running) == FALSE

\* start(): `if self.is_running: return`
StartReturnsAtOnce(running) == running

\* DeskAI.start() up to `self.should_exit = False`
StartCall ==
    /\ main_pc = "idle"
    /\ starts < MaxStarts
    /\ starts' = starts + 1
    /\ IF StartReturnsAtOnce(is_running)
       THEN UNCHANGED <<is_running, should_exit, main_pc>>
       ELSE /\ is_running' = TRUE
            /\ should_exit' = FALSE
            /\ main_pc' = "listen"
    /\ UNCHANGED <<is_processing, stop_pc, attempted, last_stop, stopped_at, ext_stops, th>>
    /\ UNCHANGED <<detVars, engVars>>

\* start() called by another thread while the first caller is still inside
\* start() and the orchestrator is Running: the same first statements; a call
\* that got past the check would set the flags and start detection again
StartAgain ==
    /\ main_pc # "idle"
    /\ is_running
    /\ starts < MaxStarts
    /\ starts' = starts + 1
    /\ IF StartReturnsAtOnce(is_running)
       THEN UNCHANGED <<is_running, should_exit, is_listening, listeners>>
       ELSE /\ is_running' = TRUE
            /\ should_exit' = FALSE
            /\ is_listening' = TRUE
            /\ listeners' = IF use_offline THEN listeners + 1 ELSE listeners
    /\ UNCHANGED <<confirmation_count, consecutive_detections, use_offline, heard, fired>>
    /\ UNCHANGED <<is_processing, main_pc, stop_pc, attempted, last_stop, stopped_at,
                   ext_stops, th>>
    /\ UNCHANGED engVars

\* start(): wake_listener.listen_for_wake_word(self._wake_word_detected_callback)
StartListen ==
    /\ main_pc = "listen"
    /\ main_pc' = "announce"
    /\ is_listening' = TRUE
    /\ listeners' = IF use_offline THEN listeners + 1 ELSE listeners
    /\ UNCHANGED <<confirmation_count, consecutive_detections, use_offline, heard, fired>>
    /\ UNCHANGED <<is_running, is_processing, should_exit, starts, stop_pc, attempted,
                   last_stop, stopped_at, ext_stops, th>>
    /\ UNCHANGED engVars

\* start(): tts.speak("Desk A I is ready")
StartAnnounce ==
    /\ main_pc = "announce"
    /\ main_pc' = "poll"
    /\ UNCHANGED <<is_running, is_processing, should_exit, starts, stop_pc, attempted,
                   last_stop, stopped_at, ext_stops, th>>
    /\ UNCHANGED <<detVars, engVars>>

\* a start() whose finally clause returns without calling stop()
StartFinallyMutNoStop(s) == s

\* start(): `finally: self.stop()`, the call every way out of the loop makes
StartFinally(s) == [s EXCEPT !["main"] = "check"]

\* a poll loop that only looks at is_running
PollLoopExitMutIgnoresExit(interrupt) ==
    /\ main_pc = "poll"
    /\ interrupt \/ ~is_running
    /\ main_pc' = "stop"
    /\ stop_pc' = StartFinally(stop_pc)
    /\ UNCHANGED <<is_running, is_processing, should_exit, starts, attempted,
                   last_stop, stopped_at, ext_stops, th>>
    /\ UNCHANGED <<detVars, engVars>>

\* start(): `while self.is_running and not self.should_exit` ends, or
\* KeyboardInterrupt; the finally clause calls stop()
PollLoopExit(interrupt) ==
    /\ main_pc = "poll"
    /\ interrupt \/ ~is_running \/ should_exit
    /\ main_pc' = "stop"
    /\ stop_pc' = StartFinally(stop_pc)
    /\ UNCHANGED <<is_running, is_processing, should_exit, starts, attempted,
                   last_stop, stopped_at, ext_stops, th>>
    /\ UNCHANGED <<detVars, engVars>>

\* stop() called from another thread (DeskAIUI._stop_assistant)
ExternalStop ==
    /\ starts > 0
    /\ stop_pc["ext"] = "none"
    /\ ext_stops < MaxExtStops
    /\ ext_stops' = ext_stops + 1
    /\ stop_pc' = [stop_pc EXCEPT !["ext"] = "check"]
    /\ UNCHANGED <<is_running, is_processing, should_exit, main_pc, starts, attempted,
                   last_stop, stopped_at, th>>
    /\ UNCHANGED <<detVars, engVars>>

\* the caller's position after stop() returned
Returned(c) == IF c = "main" THEN "idle" ELSE main_pc

\* stop(): `if not self.is_running: return`
StopCheck(c) ==
    /\ stop_pc[c] = "check"
    /\ IF ~is_running
       THEN /\ stop_pc' = [stop_pc EXCEPT ![c] = "none"]
            /\ last_stop' = [last_stop EXCEPT ![c] = "noop"]
            /\ stopped_at' = [stopped_at EXCEPT ![c] = starts]
            /\ main_pc' = Returned(c)
       ELSE /\ stop_pc' = [stop_pc EXCEPT ![c] = "set"]
            /\ UNCHANGED <<last_stop, stopped_at, main_pc>>
    /\ UNCHANGED <<is_running, is_processing, should_exit, starts, attempted, ext_stops, th>>
    /\ UNCHANGED <<detVars, engVars>>

\* a stop() that tears down without leaving the Running state
StopSetMutStaysRunning(c) ==
    /\ stop_pc[c] = "set"
    /\ is_running' = is_running
    /\ stop_pc' = [stop_pc EXCEPT ![c] = "wake_listener"]
    /\ attempted' = [attempted EXCEPT ![c] = {}]
    /\ last_stop' = [last_stop EXCEPT ![c] = "full"]
    /\ stopped_at' = [stopped_at EXCEPT ![c] = starts]
    /\ UNCHANGED <<is_processing, should_exit, main_pc, starts, ext_stops, th>>
    /\ UNCHANGED <<detVars, engVars>>

\* stop(): `self.is_running = False`
StopSet(c) ==
    /\ stop_pc[c] = "set"
    /\ is_running' = FALSE
    /\ stop_pc' = [stop_pc EXCEPT ![c] = "wake_listener"]
    /\ attempted' = [attempted EXCEPT ![c] = {}]
    /\ last_stop' = [last_stop EXCEPT ![c] = "full"]
    /\ stopped_at' = [stopped_at EXCEPT ![c] = starts]
    /\ UNCHANGED <<is_processing, should_exit, main_pc, starts, ext_stops, th>>
    /\ UNCHANGED <<detVars, engVars>>

\* stop(): wake_listener.stop()
StopListener(c) ==
    /\ stop_pc[c] = "wake_listener"
    /\ is_listening' = FALSE
    /\ attempted' = [attempted EXCEPT ![c] = @ \cup {"wake_listener"}]
    /\ stop_pc' = [stop_pc EXCEPT ![c] = "executor"]
    /\ UNCHANGED <<confirmation_count, consecutive_detections, use_offline, listeners, heard, fired>>
    /\ UNCHANGED <<is_running, is_processing, should_exit, main_pc, starts, last_stop,
                   stopped_at, ext_stops, th>>
    /\ UNCHANGED engVars

\* stop(): executor.stop()
StopExecutor(c) ==
    /\ stop_pc[c] = "executor"
    /\ eng_is_running' = FALSE
    /\ attempted' = [attempted EXCEPT ![c] = @ \cup {"executor"}]
    /\ stop_pc' = [stop_pc EXCEPT ![c] = "stt"]
    /\ UNCHANGED <<command_queue, worker, next_id, rejected, last_enqueue, last_dispatch>>
    /\ UNCHANGED <<is_running, is_processing, should_exit, main_pc, starts, last_stop,
                   stopped_at, ext_stops, th>>
    /\ UNCHANGED detVars

\* where stop() continues after stt.cleanup(): the four teardown calls share
\* one try block, so an exception skips to the except clause and then to the
\* closing of the logger
AfterSttCleanup(raises) == IF raises THEN "close" ELSE "tts"

\* stop(): stt.cleanup(), whose stream and PyAudio calls can raise
StopStt(c, raises) ==
    /\ stop_pc[c] = "stt"
    /\ attempted' = [attempted EXCEPT ![c] = @ \cup {"stt"}]
    /\ stop_pc' = [stop_pc EXCEPT ![c] = AfterSttCleanup(raises)]
    /\ UNCHANGED <<is_running, is_processing, should_exit, main_pc, starts, last_stop,
                   stopped_at, ext_stops, th>>
    /\ UNCHANGED <<detVars, engVars>>

\* stop(): tts.cleanup()
StopTts(c) ==
    /\ stop_pc[c] = "tts"
    /\ attempted' = [attempted EXCEPT ![c] = @ \cup {"tts"}]
    /\ stop_pc' = [stop_pc EXCEPT ![c] = "close"]
    /\ UNCHANGED <<is_running, is_processing, should_exit, main_pc, starts, last_stop,
                   stopped_at, ext_stops, th>>
    /\ UNCHANGED <<detVars, engVars>>

\* stop(): logger.close() and return
StopClose(c) ==
    /\ stop_pc[c] = "close"
    /\ stop_pc' = [stop_pc EXCEPT ![c] = "none"]
    /\ main_pc' = Returned(c)
    /\ UNCHANGED <<is_running, is_processing, should_exit, starts, attempted, last_stop,
                   stopped_at, ext_stops, th>>
    /\ UNCHANGED <<detVars, engVars>>

NextLife ==
    \/ StartCall
    \/ StartListen
    \/ StartAnnounce
    \/ \E interrupt \in BOOLEAN : PollLoopExit(interrupt)
    \/ ExternalStop
    \/ \E c \in Callers : StopCheck(c)
    \/ \E c \in Callers : StopSet(c)
    \/ \E c \in Callers : StopListener(c)
    \/ \E c \in Callers : StopExecutor(c)
    \/ \E c \in Callers, raises \in BOOLEAN : StopStt(c, raises)
    \/ \E c \in Callers : StopTts(c)
    \/ \E c \in Callers : StopClose(c)

NextPass ==
    \/ \E t \in Threads : DetectorTrigger(t)
    \/ \E t \in Threads : ManualTrigger(t)
    \/ \E t \in Threads : CallbackCheck(t)
    \/ \E t \in Threads : CallbackSet(t)
    \/ \E t \in Threads : CallbackAck(t)
    \/ \E t \in Threads, text \in CommandTexts, raises \in BOOLEAN : Recognize(t, text, raises)
    \/ \E t \in Threads : ExitCheck(t)
    \/ \E t \in Threads : Classify(t)
    \/ \E t \in Threads : Resolve(t)
    \/ \E t \in Threads, os \in OsOutcomes : PassExecute(t, os)
    \/ \E t \in Threads : Respond(t)
    \/ \E t \in Threads : PostCheck(t)
    \/ \E t \in Threads : PassHandler(t)
    \/ \E t \in Threads : CallbackFinally(t)
    \/ \E t \in Threads : ThreadExit(t)

vars == <<detVars, engVars, orchVars>>

\* the detector as DeskAI.__init__ constructs it: confirmation_count=1, offline
DetConstructed ==
    /\ confirmation_count = 1
    /\ consecutive_detections = 0
    /\ is_listening = FALSE
    /\ use_offline = TRUE
    /\ listeners = 0
    /\ heard = <<>>
    /\ fired = 0

\* the engine as DeskAI.__init__ leaves it: constructed and started
EngStarted ==
    /\ command_queue = <<>>
    /\ eng_is_running = TRUE
    /\ worker = [w \in Workers |->
                   [pc |-> IF w = 1 THEN "loop" ELSE "unborn", item |-> NoDispatch]]
    /\ next_id = 1
    /\ rejected = {}
    /\ last_enqueue = NoEnqueue
    /\ last_dispatch = NoDispatch

\* the wake-word detector on its own, for every confirmation count
InitDetector == InitDet /\ InitEng /\ InitOrch
SpecDet == InitDetector
           /\ [][NextDet /\ UNCHANGED <<engVars, orchVars>>]_vars

\* the execution engine on its own
InitEngine == DetConstructed /\ InitEng /\ InitOrch
SpecEng == InitEngine
           /\ [][NextEng /\ UNCHANGED <<detVars, orchVars>>]_vars

\* the steps of one worker thread
WorkerStep(w) ==
    \/ WorkerLoop(w)
    \/ WorkerGet(w)
    \/ \E os \in OsOutcomes : WorkerExec(w, os)

\* the queued path of the execution engine: start(), stop(), execute() and
\* the worker threads
NextQueue ==
    \/ EngineStart
    \/ EngineStop
    \/ \E w \in Workers : WorkerLoop(w)
    \/ \E w \in Workers : WorkerGet(w)
    \/ \E w \in Workers, os \in OsOutcomes : WorkerExec(w, os)
    \/ \E c \in QueuedCmds : Execute(c)

SpecQueue == InitEngine /\ [][NextQueue /\ UNCHANGED <<detVars, orchVars>>]_vars

\* the queued path with its worker threads scheduled
SpecQueueFair ==
    SpecQueue /\ \A w \in Workers : WF_vars(WorkerStep(w) /\ UNCHANGED <<detVars, orchVars>>)

\* the orchestrator after start() has reached its poll loop
OrchRunning ==
    /\ is_running = TRUE
    /\ is_processing = FALSE
    /\ should_exit = FALSE
    /\ main_pc = "poll"
    /\ starts = 1
    /\ stop_pc = [c \in Callers |-> "none"]
    /\ attempted = [c \in Callers |-> {}]
    /\ last_stop = [c \in Callers |-> "none"]
    /\ stopped_at = [c \in Callers |-> -1]
    /\ ext_stops = 0
    /\ th = [t \in Threads |-> Unborn]

DetListening ==
    /\ confirmation_count = 1
    /\ consecutive_detections = 0
    /\ is_listening = TRUE
    /\ use_offline = TRUE
    /\ listeners = 1
    /\ heard = <<>>
    /\ fired = 0

\* the life cycle of the orchestrator: start(), the poll loop, stop()
InitLife == DetConstructed /\ EngStarted /\ InitOrch
SpecLife == InitLife /\ [][NextLife]_vars

\* the trigger-callback threads of a Running orchestrator
InitPass == DetListening /\ EngStarted /\ OrchRunning
SpecPass == InitPass /\ [][NextPass]_vars

\* a Running orchestrator as a whole: the thread inside start() polls, then
\* runs stop(), while callback threads run their passes
RunThreads == 1..MaxRunThreads

NextRun ==
    \/ \E t \in RunThreads : DetectorTrigger(t)
    \/ \E t \in RunThreads : ManualTrigger(t)
    \/ \E t \in RunThreads : CallbackCheck(t)
    \/ \E t \in RunThreads : CallbackSet(t)
    \/ \E t \in RunThreads : CallbackAck(t)
    \/ \E t \in RunThreads, text \in CommandTexts, raises \in BOOLEAN : Recognize(t, text, raises)
    \/ \E t \in RunThreads : ExitCheck(t)
    \/ \E t \in RunThreads : Classify(t)
    \/ \E t \in RunThreads : Resolve(t)
    \/ \E t \in RunThreads, os \in OsOutcomes : PassExecute(t, os)
    \/ \E t \in RunThreads : Respond(t)
    \/ \E t \in RunThreads : PostCheck(t)
    \/ \E t \in RunThreads : PassHandler(t)
    \/ \E t \in RunThreads : CallbackFinally(t)
    \/ \E t \in RunThreads : ThreadExit(t)
    \/ StartAgain
    \/ \E interrupt \in BOOLEAN : PollLoopExit(interrupt)
    \/ StopCheck("main")
    \/ StopSet("main")
    \/ StopListener("main")
    \/ StopExecutor("main")
    \/ \E raises \in BOOLEAN : StopStt("main", raises)
    \/ StopTts("main")
    \/ StopClose("main")

SpecRun == InitPass /\ [][NextRun]_vars

\* the steps of the thread inside start() that need no outside event: the poll
\* loop wakes every 0.5 s and re-reads its condition, stop() runs straight through
MainStep ==
    \/ PollLoopExit(FALSE)
    \/ StopCheck("main")
    \/ StopSet("main")
    \/ StopListener("main")
    \/ StopExecutor("main")
    \/ \E raises \in BOOLEAN : StopStt("main", raises)
    \/ StopTts("main")
    \/ StopClose("main")

\* the thread inside start() is scheduled
SpecRunFair == SpecRun /\ WF_vars(MainStep)

\* a Running orchestrator that is stopped from outside as well: the thread
\* inside start() polls and runs stop(), DeskAIUI._stop_assistant calls stop()
\* from its own thread, and the callback threads of the detection loop hear a
\* farewell or a command
NextStop ==
    \/ \E t \in RunThreads : DetectorTrigger(t)
    \/ \E t \in RunThreads : CallbackCheck(t)
    \/ \E t \in RunThreads : CallbackSet(t)
    \/ \E t \in RunThreads : CallbackAck(t)
    \/ \E t \in RunThreads, text \in {T_goodbye, T_open_np}, raises \in BOOLEAN :
          Recognize(t, text, raises)
    \/ \E t \in RunThreads : ExitCheck(t)
    \/ \E t \in RunThreads : Classify(t)
    \/ \E t \in RunThreads : Resolve(t)
    \/ \E t \in RunThreads, os \in OsOutcomes : PassExecute(t, os)
    \/ \E t \in RunThreads : Respond(t)
    \/ \E t \in RunThreads : PostCheck(t)
    \/ \E t \in RunThreads : PassHandler(t)
    \/ \E t \in RunThreads : CallbackFinally(t)
    \/ \E t \in RunThreads : ThreadExit(t)
    \/ \E interrupt \in BOOLEAN : PollLoopExit(interrupt)
    \/ ExternalStop
    \/ \E c \in Callers : StopCheck(c)
    \/ \E c \in Callers : StopSet(c)
    \/ \E c \in Callers : StopListener(c)
    \/ \E c \in Callers : StopExecutor(c)
    \/ \E c \in Callers, raises \in BOOLEAN : StopStt(c, raises)
    \/ \E c \in Callers : StopTts(c)
    \/ \E c \in Callers : StopClose(c)

SpecStop == InitPass /\ [][NextStop]_vars

\* the thread inside start() is scheduled
SpecStopFair == SpecStop /\ WF_vars(MainStep)

\* the callback threads the detection loop waits for before it reads the next
\* audio, had it called the callback itself
LoopWaitsForMutInline == {t \in RunThreads : th[t].pc \notin {"unborn", "dropped", "done"}}

\* the callback threads the detection loop waits for before it reads the next
\* audio: threading.Thread(target=self.callback, daemon=True).start() returns
\* at once and the thread is never joined
LoopWaitsFor == {}

\* what the detection loop hears next to a Running orchestrator
LoopTexts == {T_desk, T_dusk}

\* one finalized utterance handled by the detection loop whose callback is the
\* orchestrator's: a completed run starts the callback on a thread of its own
LoopFinal(text) ==
    /\ LoopWaitsFor = {}
    /\ Len(heard) < MaxLoopUtterances
    /\ HandleFinal(text)
    /\ IF OnFinal(text, consecutive_detections, confirmation_count).fire
       THEN \E t \in RunThreads : Fresh(t) /\ th' = [th EXCEPT ![t].pc = "check"]
       ELSE UNCHANGED th
    /\ UNCHANGED <<is_running, is_processing, should_exit, main_pc, starts, stop_pc,
                   attempted, last_stop, stopped_at, ext_stops>>
    /\ UNCHANGED engVars

\* the detection loop, listening with any confirmation count in either mode,
\* together with the passes its callback threads run
InitListen ==
    /\ confirmation_count \in 1..MaxConfirm
    /\ consecutive_detections = 0
    /\ is_listening = TRUE
    /\ use_offline \in BOOLEAN
    /\ listeners = IF use_offline THEN 1 ELSE 0
    /\ heard = <<>>
    /\ fired = 0
    /\ EngStarted
    /\ OrchRunning

NextListen ==
    \/ \E text \in LoopTexts : LoopFinal(text)
    \/ \E t \in RunThreads : CallbackCheck(t)
    \/ \E t \in RunThreads : CallbackSet(t)
    \/ \E t \in RunThreads : CallbackAck(t)
    \/ \E t \in RunThreads : SpeakAsyncEnds(t)
    \/ \E t \in RunThreads, text \in CommandTexts, raises \in BOOLEAN : Recognize(t, text, raises)
    \/ \E t \in RunThreads : ExitCheck(t)
    \/ \E t \in RunThreads : Classify(t)
    \/ \E t \in RunThreads : Resolve(t)
    \/ \E t \in RunThreads, os \in OsOutcomes : PassExecute(t, os)
    \/ \E t \in RunThreads : Respond(t)
    \/ \E t \in RunThreads : PostCheck(t)
    \/ \E t \in RunThreads : PassHandler(t)
    \/ \E t \in RunThreads : CallbackFinally(t)
    \/ \E t \in RunThreads : ThreadExit(t)

SpecListen == InitListen /\ [][NextListen]_vars

\* only the detection loop is scheduled: a callback thread may block for ever
SpecListenFair == SpecListen /\ WF_vars(\E text \in LoopTexts : LoopFinal(text))

(***************************************************************************)
(* Orchestrator properties.                                                *)
(***************************************************************************)
\* the positions of a callback between `is_processing = True` and the
\* `is_processing = False` of its finally clause
InPass(t) ==
    th[t].pc \in {"ack", "recognize", "exit_check", "classify", "resolve", "execute",
                  "respond", "post_check", "handler", "finally"}

\* C1: at most one command-processing pass is active at any time: no two
\* callback threads are simultaneously between setting is_processing and
\* clearing it.
C1_AtMostOnePass ==
    \A t, u \in Threads : (InPass(t) /\ InPass(u)) => t = u

\* C2: the trigger callback invoked while is_processing is true returns at
\* once: no orchestrator flag, no queue content and no other thread changes,
\* no pipeline stage starts, and the dropped thread only ends (no pass is
\* started for its trigger later).
C2_BusyTriggerIsNoOp ==
    [][\A t \in Threads :
          /\ (th[t].pc = "check" /\ is_processing /\ th'[t] # th[t]) =>
                /\ th'[t] = [th[t] EXCEPT !.pc = "dropped"]
                /\ \A u \in Threads \ {t} : th'[u] = th[u]
                /\ UNCHANGED <<is_running, is_processing, should_exit, main_pc,
                               stop_pc, command_queue, detVars>>
          /\ (th[t].pc = "dropped" /\ th'[t] # th[t]) => th'[t] = Unborn]_vars

\* witness of C2: a trigger has been dropped while another thread's pass is active
C2_Witness ==
    \E t, u \in Threads :
        /\ th[t].pc = "dropped"
        /\ InPass(u)
        /\ is_processing

\* how far a callback is inside its pass
PassRank(pc) ==
    CASE pc = "ack"        -> 1
      [] pc = "recognize"  -> 2
      [] pc = "exit_check" -> 3
      [] pc = "classify"   -> 4
      [] pc = "resolve"    -> 5
      [] pc = "execute"    -> 6
      [] pc = "respond"    -> 7
      [] pc = "post_check" -> 8
      [] pc = "handler"    -> 9
      [] pc = "finally"    -> 10
      [] OTHER             -> 0

\* C3: every step of a callback inside a pass moves it forward towards the
\* finally clause (no stage is repeated or re-entered), the pass is left only
\* through the finally clause, which clears is_processing whatever the
\* outcome, and the flag is never set while no callback is inside a pass.
C3_PassEndsAndClears ==
    /\ [](is_processing => \E t \in Threads : InPass(t))
    /\ [][\A t \in Threads :
            (InPass(t) /\ th'[t] # th[t]) =>
                \/ InPass(t)' /\ PassRank(th'[t].pc) > PassRank(th[t].pc)
                \/ th[t].pc = "finally" /\ th'[t].pc = "done" /\ ~is_processing']_vars

\* witness of C3: a pass that hit an exception has returned and the flag is clear
C3_Witness ==
    \E t \in Threads :
        /\ th[t].pc = "done"
        /\ th[t].failed
        /\ ~is_processing

\* C7: once a stop() has passed its check, the orchestrator is not Running
\* until the next start(), so a stop() that follows it finds it not Running;
\* and stop() when not Running returns without changing any flag and without
\* tearing anything down, leaving the state the first call left.
C7_StopIdempotent ==
    /\ [](\A c \in Callers : stopped_at[c] = starts => ~is_running)
    /\ [][\A c \in Callers :
            (stop_pc[c] = "check" /\ ~is_running /\ stop_pc'[c] # "check") =>
                /\ stop_pc'[c] = "none"
                /\ UNCHANGED <<is_running, is_processing, should_exit, starts,
                               attempted, is_listening, eng_is_running, th>>]_vars

\* witness of C7: the outside caller's second stop() has returned as a no-op
\* after its first one tore the components down
C7_Witness ==
    /\ ext_stops = 2
    /\ stop_pc["ext"] = "none"
    /\ last_stop["ext"] = "noop"
    /\ "wake_listener" \in attempted["ext"]
    /\ starts = 1
    /\ ~is_running

\* C8: every stop() from Running attempts all four teardown calls, also when
\* one of them raises.
C8_AllTeardownsAttempted ==
    \A c \in Callers : stop_pc[c] = "close" => attempted[c] = {"wake_listener", "executor", "stt", "tts"}

\* C10: a pass in which a stage raised has spoken the generic apology as its
\* response, did not set should_exit, and leaves no exception to the callback
\* or to the thread that ran it.
C10_FailureCaughtAtBoundary ==
    \A t \in Threads :
        (th[t].failed /\ th[t].pc \in {"finally", "done"}) =>
            /\ th[t].said = <<SayListening, SayProblem>>
            /\ ~th[t].set_exit
            /\ ~th[t].exc

\* witness of C10: a stage raised, the pass has returned with the apology spoken
C10_Witness ==
    \E t \in Threads :
        /\ th[t].pc = "done"
        /\ th[t].failed
        /\ ~th[t].exc
        /\ ~should_exit
        /\ th[t].said = <<SayListening, SayProblem>>

\* C11: a pass whose recognized text contains an exit keyword speaks the
\* farewell and sets should_exit in its exit check, and once should_exit is
\* set the thread inside start() leaves the poll loop and runs stop() to its
\* end: the orchestrator is not Running and start() has returned, with no
\* further trigger or pass needed.
C11_ExitKeywordStops ==
    /\ [][\A t \in Threads :
            (th[t].pc = "exit_check" /\ HasExitKeyword(th[t].text) /\ th'[t] # th[t]) =>
                /\ th'[t].said = Append(th[t].said, SayGoodbye)
                /\ th'[t].pc = "finally"
                /\ should_exit']_vars
    /\ (should_exit ~> (main_pc = "idle" /\ ~is_running))

\* witness of C11: the pass heard an exit keyword, said the farewell, and
\* start() has returned through a full stop()
C11_Witness ==
    \E t \in Threads :
        /\ th[t].pc = "done"
        /\ th[t].set_exit
        /\ th[t].said = <<SayListening, SayGoodbye>>
        /\ should_exit
        /\ main_pc = "idle"
        /\ ~is_running
        /\ last_stop["main"] = "full"

\* the literal exit action: kind system, payload exit
IsExitAction(c) == c.cmd_type = "system" /\ c.exec_data = "exit"

\* C12: a pass whose intent resolved to the literal exit action is executing,
\* responding or at its post-check, or it has ended with should_exit set by
\* it; it never ends any other way, and it got there although its text holds
\* no exit keyword.
C12_ExitActionHonored ==
    \A t \in Threads :
        IsExitAction(th[t].cmd) =>
            \/ th[t].pc \in {"execute", "respond", "post_check"}
            \/ /\ th[t].pc = "finally"
               /\ th[t].set_exit
               /\ should_exit
               /\ ~HasExitKeyword(th[t].text)

\* witness of C12: "bye" holds no exit keyword, resolved to the exit action,
\* and the pass is at its end with should_exit set
C12_Witness ==
    \E t \in Threads :
        /\ th[t].pc = "finally"
        /\ th[t].text = T_bye
        /\ IsExitAction(th[t].cmd)
        /\ should_exit

\* C13: before execute_immediate has returned the pass holds no result and
\* has spoken nothing but the acknowledgement; once it has returned, the
\* result the pass holds is the result of executing the resolved action (with
\* its OS calls already made), and the feedback spoken next is built from that
\* same result.
C13_FeedbackAfterExecution ==
    \A t \in Threads :
        /\ th[t].pc \in {"ack", "recognize", "exit_check", "classify", "resolve", "execute"} =>
              /\ th[t].res = NoRes
              /\ th[t].said \in {<<>>, <<SayListening>>}
        /\ th[t].pc \in {"respond", "post_check"} =>
              \E os \in OsOutcomes : th[t].res = Kept(ExecuteCommand(th[t].cmd, os))
        /\ th[t].pc = "respond" => th[t].said = <<SayListening>>
        /\ th[t].pc = "post_check" =>
              th[t].said = <<SayListening, Feedback(th[t].res)>>

\* witness of C13: the action's OS call was made and failed, and the feedback
\* spoken afterwards reports that failure
C13_Witness ==
    \E t \in Threads :
        /\ th[t].pc = "post_check"
        /\ th[t].res.calls # <<>>
        /\ ~th[t].res.success
        /\ th[t].said = <<SayListening, Feedback(th[t].res)>>

\* C16: what a pass speaks after its acknowledgement is exactly the result
\* message when the execution succeeded and "Sorry, " followed by the result
\* message when it failed; a successful app action with the message
\* "Opening notepad" is spoken as exactly "Opening notepad".
C16_FeedbackIsResultMessage ==
    \A t \in Threads :
        th[t].pc = "post_check" =>
            /\ Len(th[t].said) = 2
            /\ th[t].res.success => th[t].said[2] = th[t].res.message
            /\ ~th[t].res.success => th[t].said[2] = <<"Sorry, ">> \o th[t].res.message
            /\ (th[t].cmd = CmdApp /\ th[t].res.success) =>
                  th[t].said[2] = <<"Opening ", "notepad">>

\* witness of C16: "open notepad" succeeded and "Opening notepad" was spoken
C16_Witness ==
    \E t \in Threads :
        /\ th[t].pc = "post_check"
        /\ th[t].text = T_open_np
        /\ th[t].res.success
        /\ th[t].said = <<SayListening, <<"Opening ", "notepad">>>>

\* a pass at its end that took the no-speech early exit
NoSpeechExit(t) == th[t].pc = "finally" /\ th[t].text = T_empty /\ ~th[t].failed

\* C18 as stated: a pass at its end has spoken a response after the
\* acknowledgement exactly when it is not the no-speech early exit, and a
\* dropped trigger has spoken nothing.
C18_Original ==
    \A t \in Threads :
        /\ th[t].pc = "finally" => ((Len(th[t].said) >= 2) <=> ~NoSpeechExit(t))
        /\ th[t].pc = "dropped" => th[t].said = <<>>

\* C18: every pass at its end has spoken exactly one non-empty response after
\* the acknowledgement, the no-speech early exit included (it speaks the
\* "didn't hear anything" response); only a dropped trigger has spoken nothing.
C18_EveryPassAnswered ==
    \A t \in Threads :
        /\ th[t].pc = "finally" =>
              /\ Len(th[t].said) = 2
              /\ th[t].said[1] = SayListening
              /\ th[t].said[2] # <<>>
              /\ NoSpeechExit(t) => th[t].said[2] = SayNothing
        /\ th[t].pc = "dropped" => th[t].said = <<>>

\* witness of C18: a pass that heard nothing is at its end and has spoken
C18_Witness ==
    \E t \in Threads :
        /\ NoSpeechExit(t)
        /\ th[t].said = <<SayListening, SayNothing>>

\* C23: the detection loop goes on to the next utterance whatever the callback
\* threads do, also when a pass never returns: with only the loop scheduled,
\* every utterance is eventually handled; and no step of a callback thread
\* touches the detector's counter or history.
C23_DetectionNeverStalls ==
    /\ <>(Len(heard) = MaxLoopUtterances)
    /\ [][th' # th /\ heard' = heard => UNCHANGED detVars]_vars

\* witness of C23: with C = 2 the second match started the callback, whose
\* pass is still waiting for the command, and the loop has since counted a
\* third match
C23_Witness ==
    /\ confirmation_count = 2
    /\ heard = <<[kind |-> "final", text |-> T_desk],
                 [kind |-> "final", text |-> T_desk],
                 [kind |-> "final", text |-> T_desk]>>
    /\ fired = 1
    /\ consecutive_detections = 1
    /\ \E t \in RunThreads : th[t].pc = "recognize" /\ is_processing

\* C24: a pass whose recognition returned empty text goes from recognition
\* straight to its end, leaving should_exit and the engine as they are; at its
\* end it has spoken the "didn't hear anything" response and holds no intent,
\* no resolved action and no execution result, and it has not asked for exit.
C24_NoSpeechEndsPass ==
    /\ [](\A t \in Threads :
            NoSpeechExit(t) =>
                /\ th[t].said = <<SayListening, SayNothing>>
                /\ th[t].intent = NoIntent
                /\ th[t].cmd = CmdUnknown
                /\ th[t].res = NoRes
                /\ ~th[t].set_exit)
    /\ [][\A t \in Threads :
            (th[t].pc = "recognize" /\ th'[t] # th[t]
               /\ ~th'[t].failed /\ th'[t].text = T_empty) =>
                /\ th'[t].pc = "finally"
                /\ UNCHANGED <<should_exit, engVars>>]_vars

\* witness of C24: nothing was heard, the pass has returned having spoken the
\* "didn't hear anything" response, and should_exit is clear
C24_Witness ==
    \E t \in Threads :
        /\ th[t].pc = "done"
        /\ ~th[t].failed
        /\ th[t].said = <<SayListening, SayNothing>>
        /\ ~should_exit

\* a pass at its end whose text the classifier answers with the unknown intent
UnknownIntentExit(t) ==
    /\ th[t].pc = "finally"
    /\ ~th[t].failed
    /\ th[t].text # T_empty
    /\ ~HasExitKeyword(th[t].text)
    /\ ParseIntent(th[t].text).intent = "unknown"

\* C25: a pass whose text classifies as unknown goes from classification
\* straight to its end, leaving should_exit and the engine as they are; at its
\* end it has spoken the "didn't understand" response and holds no resolved
\* action and no execution result, and it has not asked for exit.
C25_UnknownIntentEndsPass ==
    /\ [](\A t \in Threads :
            UnknownIntentExit(t) =>
                /\ th[t].said = <<SayListening, SayUnknown>>
                /\ th[t].cmd = CmdUnknown
                /\ th[t].res = NoRes
                /\ ~th[t].set_exit)
    /\ [][\A t \in Threads :
            (th[t].pc = "classify" /\ th'[t] # th[t]
               /\ ParseIntent(th[t].text).intent = "unknown") =>
                /\ th'[t].pc = "finally"
                /\ UNCHANGED <<should_exit, engVars>>]_vars

\* witness of C25: "hmm" was heard, the pass is at its end having spoken the
\* "didn't understand" response, and should_exit is clear
C25_Witness ==
    \E t \in Threads :
        /\ UnknownIntentExit(t)
        /\ th[t].text = T_hmm
        /\ th[t].said = <<SayListening, SayUnknown>>
        /\ ~should_exit

\* C26: a pass whose text contains an exit keyword as a substring is never
\* found at classification, resolution, execution or feedback: it steps from
\* the exit check to its end with should_exit set and the engine untouched,
\* and at its end it has spoken the farewell and holds no intent, no resolved
\* action and no execution result.
C26_ExitCheckFirst ==
    /\ [](\A t \in Threads :
            (InPass(t) /\ \E word \in ExitKeywords : Contains(word, Lower(th[t].text))) =>
                /\ th[t].pc \in {"exit_check", "finally"}
                /\ th[t].intent = NoIntent
                /\ th[t].cmd = CmdUnknown
                /\ th[t].res = NoRes
                /\ th[t].pc = "finally" =>
                      /\ th[t].said = <<SayListening, SayGoodbye>>
                      /\ th[t].set_exit
                      /\ should_exit)
    /\ [][\A t \in Threads :
            (th[t].pc = "exit_check" /\ th'[t] # th[t]
               /\ \E word \in ExitKeywords : Contains(word, Lower(th[t].text))) =>
                /\ th'[t].pc = "finally"
                /\ should_exit'
                /\ UNCHANGED engVars]_vars

\* witness of C26: "quit notepad", which the classifier would read as closing
\* an application, has ended the pass at the exit check with should_exit set
C26_Witness ==
    \E t \in Threads :
        /\ th[t].pc = "finally"
        /\ th[t].text = T_quit_np
        /\ ParseIntent(th[t].text).intent = "close_app"
        /\ th[t].res = NoRes
        /\ th[t].said = <<SayListening, SayGoodbye>>
        /\ should_exit

\* C19: a start() call that finds the orchestrator Running changes no flag
\* (should_exit keeps its value), does not start detection again, leaves the
\* thread inside start() where it is (no second poll loop), and touches no
\* callback thread and no component.
C19_StartWhileRunningIsNoOp ==
    [][(starts' = starts + 1 /\ is_running) =>
          UNCHANGED <<is_running, is_processing, should_exit, main_pc, stop_pc,
                      attempted, th, detVars, engVars>>]_vars

\* witness of C19: start() was called again on the Running orchestrator after
\* a pass had set should_exit, and should_exit is still set
C19_Witness ==
    /\ starts = 2
    /\ is_running
    /\ should_exit
    /\ is_listening
    /\ main_pc = "poll"

\* C31: the thread inside start() leaves the poll loop only into the stop()
\* call of the finally clause, never straight back to its caller; whenever it
\* returns to its caller the orchestrator is not Running; and once should_exit
\* is set by a pass, or an external stop() has cleared is_running, the loop
\* ends, stop() runs and start() returns with the orchestrator not Running.
C31_StartStopsBeforeReturning ==
    /\ [][(main_pc = "poll" /\ main_pc' # "poll") =>
             (main_pc' = "stop" /\ stop_pc'["main"] = "check")]_vars
    /\ [][(main_pc # "idle" /\ main_pc' = "idle") =>
             (main_pc = "stop" /\ ~is_running')]_vars
    /\ ((main_pc = "poll" /\ (should_exit \/ ~is_running))
            ~> (main_pc = "idle" /\ ~is_running))

\* witness of C31: an external stop() ran in full while start() was polling,
\* and start() then left the loop, found nothing to stop and returned
C31_Witness ==
    /\ main_pc = "idle"
    /\ ~is_running
    /\ ~should_exit
    /\ last_stop["ext"] = "full"
    /\ last_stop["main"] = "noop"
    /\ stop_pc = [c \in Callers |-> "none"]

\* C32: in every pass the acknowledgement is spoken in blocking mode: no
\* callback thread starts capturing the command (leaves the point in front of
\* stt.start_listening()) while its acknowledgement speech is still going on.
C32_AckSpokenBeforeCapture ==
    [][\A t \in Threads :
          (th[t].pc = "recognize" /\ th'[t].pc # "recognize") => ~th[t].speaking]_vars

\* C35: is_processing is true whenever a pipeline pass is active: no callback
\* thread is between its acknowledgement and the end of its pass while
\* is_processing is false.
C35_ProcessingWhilePassActive ==
    \A t \in Threads : InPass(t) => is_processing

C37_RunningHasEngine ==
    is_running => eng_is_running

(***************************************************************************)
(* Execution engine properties.                                            *)
(***************************************************************************)
HasDispatched == last_dispatch.id # 0
HasEnqueued == last_enqueue.id # 0

\* C4: an action of kind error or unknown never reaches an OS collaborator,
\* through execute_immediate or through the worker: the dispatcher answers
\* success = false with the descriptor's own message and calls no OS primitive.
C4_ErrorUnknownNoOsCall ==
    (HasDispatched /\ last_dispatch.cmd.cmd_type \in {"error", "unknown"}) =>
        /\ last_dispatch.result.success = FALSE
        /\ last_dispatch.result.message = last_dispatch.cmd.response
        /\ last_dispatch.result.calls = <<>>

\* witness of C4: the worker has dispatched a queued action of kind error
C4_Witness ==
    /\ HasDispatched
    /\ last_dispatch.via = "worker"
    /\ last_dispatch.cmd.cmd_type = "error"
    /\ last_dispatch.result.calls = <<>>

\* ids of the requests the engine still holds: queued or in a worker's hand
HeldIds ==
    {command_queue[i].id : i \in 1..Len(command_queue)}
      \cup {worker[w].item.id : w \in {v \in Workers : worker[v].pc = "exec"}}

\* C5: execute() on a queue already holding N items returns false in the same
\* step (it does not wait for room), leaves the same N items queued, and the
\* rejected action is never executed; execute() returns true exactly when the
\* action was placed on the queue.
C5_EnqueueFullRejects ==
    /\ HasEnqueued =>
          /\ (Len(last_enqueue.before) = max_queue_size) =>
                (last_enqueue.ret = FALSE /\ last_enqueue.after = last_enqueue.before)
          /\ last_enqueue.ret =
                (\E i \in 1..Len(last_enqueue.after) :
                    last_enqueue.after[i].id = last_enqueue.id)
          /\ last_enqueue.ret = (Len(last_enqueue.after) = Len(last_enqueue.before) + 1)
          /\ SubSeq(last_enqueue.after, 1, Len(last_enqueue.before)) = last_enqueue.before
    /\ rejected \cap HeldIds = {}
    /\ HasDispatched => last_dispatch.id \notin rejected

\* witness of C5: a call was rejected on a full queue, and afterwards the
\* worker has emptied the queue
C5_Witness ==
    /\ rejected # {}
    /\ last_enqueue.ret = FALSE
    /\ Len(last_enqueue.before) = max_queue_size
    /\ command_queue = <<>>
    /\ HeldIds = {}
    /\ HasDispatched /\ last_dispatch.via = "worker"
    /\ last_dispatch.id = last_enqueue.before[max_queue_size].id

\* the worker has just dispatched request i
DispatchedByWorker(i) == last_dispatch.id = i /\ last_dispatch.via = "worker"

\* the requests in workers' hands
InHand == {w \in Workers : worker[w].pc = "exec"}

\* a request is held in one place only, a worker that finishes an item
\* dispatched exactly that item and no longer holds it, and a request that
\* left the engine never comes back
HeldAtMostOnce ==
    /\ [](Cardinality(HeldIds) = Len(command_queue) + Cardinality(InHand))
    /\ [][/\ \A w \in Workers :
              (worker[w].pc = "exec" /\ worker'[w].pc # "exec") =>
                  /\ last_dispatch'.id = worker[w].item.id
                  /\ last_dispatch'.via = "worker"
                  /\ last_dispatch'.cmd = worker[w].item.cmd
                  /\ worker[w].item.id \notin HeldIds'
          /\ HeldIds' \subseteq HeldIds \cup {next_id}]_vars

C15_StoppedWorkerTakesNothing ==
    [][~eng_is_running =>
          /\ \A w \in Workers :
                (worker[w].pc # "exec" => worker'[w].pc # "exec")
          /\ (eng_is_running' = eng_is_running =>
                 Len(command_queue') >= Len(command_queue))]_vars

\* C27: requests leave the queue oldest first, a worker dispatches one request
\* at a time and the next dispatch starts only after the previous one has
\* completed: no two requests are in hand together, a request in hand is older
\* than every request still queued, and dispatches complete in the order of
\* enqueueing.
C27_FifoDispatch ==
    /\ [](\A w \in InHand : \A i \in 1..Len(command_queue) :
            worker[w].item.id < command_queue[i].id)
    /\ [](Cardinality(InHand) <= 1)
    /\ [][last_dispatch' # last_dispatch => last_dispatch'.id > last_dispatch.id]_vars

\* C28: at no time is more than one worker thread inside the worker loop,
\* whatever start() and stop() calls were made.
C28_AtMostOneWorker ==
    Cardinality({w \in Workers : worker[w].pc \in {"loop", "get", "exec"}}) <= 1

\* C29: the queue never holds more than max_queue_size items, whatever the
\* interleaving of execute() calls, worker dequeues, start() and stop().
C29_QueueBounded == Len(command_queue) <= max_queue_size

\* witness of C29: the queue is full while a worker of the running engine has
\* a dequeued item in hand
C29_Witness ==
    /\ Len(command_queue) = max_queue_size
    /\ InHand # {}
    /\ eng_is_running

\* C30: a step in which execute_immediate dispatched an action leaves the
\* queue, the workers, the running flag and the record of enqueue calls as
\* they were, and its result is the dispatcher's result for that action with
\* no exception left, whatever the state of the queue and of the worker.
C30_ImmediateBypassesQueue ==
    [][(last_dispatch' # last_dispatch /\ last_dispatch'.via = "immediate") =>
          /\ UNCHANGED <<command_queue, worker, eng_is_running, rejected, last_enqueue>>
          /\ last_dispatch'.id = next_id
          /\ \E os \in OsOutcomes :
                last_dispatch'.result = ExecuteCommand(last_dispatch'.cmd, os)
          /\ last_dispatch'.result.exc = "none"]_vars

\* witness of C30: execute_immediate has returned a success while the queue
\* is full and the engine is stopped
C30_Witness ==
    /\ HasDispatched
    /\ last_dispatch.via = "immediate"
    /\ last_dispatch.result.success
    /\ last_dispatch.result.calls # <<>>
    /\ Len(command_queue) = max_queue_size
    /\ ~eng_is_running

\* C17: execute_immediate on an action of kind info succeeds whatever the OS
\* would do, makes no OS call, and returns the descriptor's message as the
\* result message.
C17_InfoSucceedsWithMessage ==
    (HasDispatched /\ last_dispatch.via = "immediate"
                   /\ last_dispatch.cmd.cmd_type = "info") =>
        /\ last_dispatch.result.success = TRUE
        /\ last_dispatch.result.message = last_dispatch.cmd.response
        /\ last_dispatch.result.calls = <<>>
        /\ last_dispatch.result.exc = "none"

\* witness of C17: execute_immediate has run the time answer
C17_Witness ==
    /\ HasDispatched
    /\ last_dispatch.via = "immediate"
    /\ last_dispatch.cmd = CmdInfo
    /\ last_dispatch.result.success
    /\ last_dispatch.result.message = <<"The time is ", "05:00 PM">>

\* C33: a dispatched action of kind system with payload exit succeeds with the
\* descriptor's message and makes no OS call; with any other payload it makes
\* exactly one call, subprocess.Popen, and succeeds (with the descriptor's
\* message) exactly when that call did not raise, answering "System command
\* failed: ..." when it did.
C33_SystemExitNeverCallsOs ==
    (HasDispatched /\ last_dispatch.cmd.cmd_type = "system") =>
        LET c == last_dispatch.cmd
            r == last_dispatch.result
        IN IF c.exec_data = "exit"
           THEN r.success /\ r.message = c.response /\ r.calls = <<>>
           ELSE /\ r.calls = <<"subprocess.Popen">>
                /\ r.success = ~r.os_raised
                /\ r.message = IF r.os_raised
                               THEN <<"System command failed: ", Cause>>
                               ELSE c.response

\* witness of C33: the exit action was dispatched and answered with its own
\* message, without an OS call
C33_Witness ==
    /\ HasDispatched
    /\ last_dispatch.cmd = CmdExit
    /\ last_dispatch.result.success
    /\ last_dispatch.result.message = <<"Goodbye! Shutting down.">>
    /\ last_dispatch.result.calls = <<>>

\* C34: every result the dispatcher returns for an action whose descriptor
\* message is non-empty has a non-empty message, on the success paths, the
\* handlers' failure paths, the missing-folder path and the unknown-kind path,
\* through execute_immediate and through the worker.
C34_ResultMessageNonEmpty ==
    LET NonEmpty(m) == \E i \in 1..Len(m) : m[i] # ""
    IN (HasDispatched /\ NonEmpty(last_dispatch.cmd.response)) =>
           NonEmpty(last_dispatch.result.message)

\* witness of C34: a folder action was dispatched, the folder was missing, and
\* the result carries the message the handler built itself
C34_Witness ==
    /\ HasDispatched
    /\ last_dispatch.cmd.cmd_type = "folder"
    /\ last_dispatch.cmd.response # <<>>
    /\ ~last_dispatch.result.success
    /\ last_dispatch.result.calls = <<>>
    /\ last_dispatch.result.message = <<"Folder not found: ", "~/Downloads">>

\* the message prefix each handler's own except clause uses
HandlerFailure(cmd_type) ==
    CASE cmd_type = "app"       -> "Failed to open application: "
      [] cmd_type = "folder"    -> "Failed to open folder: "
      [] cmd_type = "system"    -> "System command failed: "
      [] cmd_type = "web"       -> "Failed to open browser: "
      [] cmd_type = "close_app" -> "Failed to close application: "
      [] OTHER -> "Execution failed: "

\* C9 as stated: no exception leaves the dispatcher, and a failure raised by an
\* OS collaborator becomes success = false with "Execution failed: <cause>".
C9_Original ==
    HasDispatched =>
        /\ last_dispatch.result.exc = "none"
        /\ last_dispatch.result.os_raised =>
              /\ last_dispatch.result.success = FALSE
              /\ last_dispatch.result.message = <<"Execution failed: ", Cause>>

\* C9 amended: no exception leaves the dispatcher towards the caller of
\* execute_immediate or the worker loop (the worker is back in its loop after
\* a dispatch); a failure raised by an OS collaborator is caught by the
\* handler of the action's kind and becomes success = false with that
\* handler's own message (for app "Failed to open application: <cause>").
C9_FailureContained ==
    HasDispatched =>
        /\ last_dispatch.result.exc = "none"
        /\ last_dispatch.result.os_raised =>
              /\ last_dispatch.result.success = FALSE
              /\ last_dispatch.result.message =
                    <<HandlerFailure(last_dispatch.cmd.cmd_type), Cause>>

\* witness of C9: the worker dispatched an app launch whose OS call raised,
\* and is back in its loop
C9_Witness ==
    /\ HasDispatched
    /\ last_dispatch.via = "worker"
    /\ last_dispatch.cmd.cmd_type = "app"
    /\ last_dispatch.result.os_raised
    /\ last_dispatch.result.success = FALSE
    /\ \E w \in Workers : worker[w].pc = "loop"

(***************************************************************************)
(* Reference counting of confirmed triggers over a history of utterances.  *)
(***************************************************************************)
\* the finalized utterances of a history, as TRUE (matching) / FALSE (not matching)
RECURSIVE Finals(_)
Finals(h) ==
    IF h = <<>> THEN <<>>
    ELSE IF Head(h).kind = "final"
         THEN <<IsWake(Head(h).text)>> \o Finals(Tail(h))
         ELSE Finals(Tail(h))

\* length of the run of matching utterances that ends the sequence b, counted
\* from the last non-match or the last completed run of C
RECURSIVE RunAfter(_, _)
RunAfter(b, C) ==
    IF b = <<>> THEN 0
    ELSE LET prev == RunAfter(SubSeq(b, 1, Len(b) - 1), C)
         IN IF ~b[Len(b)] THEN 0
            ELSE IF prev + 1 = C THEN 0 ELSE prev + 1

\* number of completed runs of C consecutive matching utterances in b
RECURSIVE RunsOf(_, _)
RunsOf(b, C) ==
    IF b = <<>> THEN 0
    ELSE LET init == SubSeq(b, 1, Len(b) - 1)
         IN RunsOf(init, C)
            + (IF b[Len(b)] /\ RunAfter(init, C) + 1 = C THEN 1 ELSE 0)

NoErrorHeard == \A i \in 1..Len(heard) : heard[i].kind # "error"

\* C-1 matches, one non-match, C matches
RECURSIVE Rep(_, _)
Rep(x, n) == IF n = 0 THEN <<>> ELSE <<x>> \o Rep(x, n - 1)

BrokenThenFull(C) == Rep(TRUE, C - 1) \o <<FALSE>> \o Rep(TRUE, C)

\* the last n events the loop handled are finalized utterances that match
EndsWithRun(h, n) ==
    /\ Len(h) >= n
    /\ \A i \in (Len(h) - n + 1)..Len(h) : h[i].kind = "final" /\ IsWake(h[i].text)

\* C21: handling a recognition error leaves the loop listening (is_listening,
\* the confirmation count and the mode are untouched, nothing fires), and a
\* run of C matching utterances that follows any number of errors has fired
\* the callback once more than everything before the run had.
C21_ErrorsNeverStopLoop ==
    /\ [][(heard' # heard /\ heard'[Len(heard')].kind = "error") =>
            /\ is_listening'
            /\ UNCHANGED <<is_listening, confirmation_count, use_offline, listeners, fired>>]_vars
    /\ []((EndsWithRun(heard, confirmation_count)
             /\ \E i \in 1..(Len(heard) - confirmation_count) : heard[i].kind = "error") =>
            fired = 1 + RunsOf(Finals(SubSeq(heard, 1, Len(heard) - confirmation_count)),
                               confirmation_count))

\* witness of C21: with C = 2, two recognition errors were followed by two
\* matching utterances, the loop still listens and the callback has fired
C21_Witness ==
    /\ confirmation_count = 2
    /\ Len(heard) = 4
    /\ heard[1].kind = "error" /\ heard[2].kind = "error"
    /\ EndsWithRun(heard, 2)
    /\ is_listening
    /\ fired = 1

\* C22: a partial result, also one that contains the wake word, leaves
\* consecutive_detections alone and fires nothing; the counter changes and the
\* callback fires only in the step that handles a finalized utterance.
C22_PartialChangesNothing ==
    [][heard' # heard =>
          /\ (heard'[Len(heard')].kind = "partial" =>
                 UNCHANGED <<consecutive_detections, fired, is_listening>>)
          /\ ((fired' # fired \/ consecutive_detections' # consecutive_detections) =>
                 heard'[Len(heard')].kind = "final")]_vars

\* witness of C22: with C = 2, one matching utterance was followed by a
\* partial result containing the wake word; the counter is still 1 and
\* nothing has fired
C22_Witness ==
    /\ confirmation_count = 2
    /\ Len(heard) = 2
    /\ heard[1].kind = "final" /\ IsWake(heard[1].text)
    /\ heard[2].kind = "partial" /\ IsWake(heard[2].text)
    /\ consecutive_detections = 1
    /\ fired = 0

\* C38: for every confirmation count C >= 1 the counter is within 0 .. C - 1
\* whenever the detection loop is between two utterances, and the step that
\* fires the callback leaves the counter at 0.
C38_CounterBelowConfirmation ==
    /\ [](0 <= consecutive_detections /\ consecutive_detections < confirmation_count)
    /\ [][fired' # fired => consecutive_detections' = 0]_vars

\* witness of C38: with C = 2 the callback has fired on the second of three
\* matching utterances and the third has been counted as the first of a new run
C38_Witness ==
    /\ confirmation_count = 2
    /\ heard = <<[kind |-> "final", text |-> T_desk],
                 [kind |-> "final", text |-> T_HeyDesk],
                 [kind |-> "final", text |-> T_desk]>>
    /\ fired = 1
    /\ consecutive_detections = 1

\* C39: at most one detection loop of a detector is alive at any time, for
\* every sequence of listen_for_wake_word() and stop() calls, also when
\* listening is started again after a stop() whose join did not see the loop end.
C39_AtMostOneDetectionLoop ==
    listeners <= 1

\* C20: when the last thing the detection loop handled is a recognition
\* error, consecutive_detections is 0, as after a non-matching utterance, so
\* matches on both sides of the error never add up to a run.
C20_ErrorResetsCount ==
    (heard # <<>> /\ heard[Len(heard)].kind = "error") => consecutive_detections = 0

\* C6: for every confirmation count C >= 1 and every sequence of completed
\* (finalized, error-free) utterances, the callback has fired exactly once per
\* run of C consecutive matching utterances, a non-matching utterance resets
\* the counter to 0, and C-1 matches, a non-match and C matches fire exactly
\* once, after the last match.
C6_FiresOncePerRun ==
    NoErrorHeard =>
        /\ fired = RunsOf(Finals(heard), confirmation_count)
        /\ consecutive_detections = RunAfter(Finals(heard), confirmation_count)
        /\ (Finals(heard) # <<>> /\ ~Finals(heard)[Len(Finals(heard))])
              => consecutive_detections = 0
        /\ \A k \in 0..(2 * confirmation_count) :
              Finals(heard) = SubSeq(BrokenThenFull(confirmation_count), 1, k)
                 => fired = (IF k = 2 * confirmation_count THEN 1 ELSE 0)

\* witness of C6: with C = 2 the loop has handled match, non-match, match,
\* match and has fired once
C6_Witness ==
    /\ confirmation_count = 2
    /\ NoErrorHeard
    /\ Finals(heard) = BrokenThenFull(2)
    /\ fired = 1

=============================================================================
